---------------------------- MODULE Spec2Model ----------------------------
(***************************************************************************)
(* A model of the two traffic-controller sketches of                       *)
(* arduino/traffic_controller.ino (target: Arduino Mega 2560, avr-gcc:     *)
(* int is 16 bits, long and unsigned long are 32 bits).                    *)
(*                                                                         *)
(* sketch = 1 : lines 1-230   (vehicleCounts / emergencyStatus,            *)
(*                             startGreenLight / endGreenLight)            *)
(* sketch = 2 : lines 233-525 (vehicleCounts / emergencyOverride,          *)
(*                             manageTrafficLights / switchToRoad)         *)
(*                                                                         *)
(* Strings are sequences of one-character strings, so that the Arduino     *)
(* String operations (trim, startsWith, replace, indexOf, substring,       *)
(* toInt) are computed as the library computes them.                       *)
(***************************************************************************)
EXTENDS Integers, Sequences, FiniteSets, TLC

\* ------------------------------------------------------------ configuration
BASE_GREEN_DELAY == 5000
MAX_GREEN_DELAY == 15000
MIN_GREEN_DELAY == 3000
YELLOW_DELAY == 2000
VEHICLE_FACTOR == 300
NUM_ROADS == 4

NORMAL_GREEN_TIME == 5000
EMERGENCY_GREEN_TIME == 8000
YELLOW_TIME == 2000
ALL_RED_TIME == 500

\* ------------------------------------------------------------------ bounds
\* The serial receive buffer holds at most MaxQueue unread command lines.
MaxQueue == 1
\* millis() is followed up to MaxTime milliseconds after boot.
MaxTime == 10000
\* Between two loop iterations that do something, time passes in steps of at
\* most TimeStep milliseconds.
TimeStep == 2000

Roads == 0 .. (NUM_ROADS - 1)

Min(S) == CHOOSE x \in S : \A y \in S : x <= y

\* ------------------------------------------------------- Arduino String API
IsSpace(c) == c \in {" ", "\n", "\r", "\t"}

IsDigit(c) == c \in {"0", "1", "2", "3", "4", "5", "6", "7", "8", "9"}

DigitVal(c) ==
  CASE c = "0" -> 0 [] c = "1" -> 1 [] c = "2" -> 2 [] c = "3" -> 3
    [] c = "4" -> 4 [] c = "5" -> 5 [] c = "6" -> 6 [] c = "7" -> 7
    [] c = "8" -> 8 [] c = "9" -> 9

RECURSIVE TrimLeft(_)
TrimLeft(s) ==
  IF s # <<>> /\ IsSpace(Head(s)) THEN TrimLeft(Tail(s)) ELSE s

RECURSIVE TrimRight(_)
TrimRight(s) ==
  IF s # <<>> /\ IsSpace(s[Len(s)])
  THEN TrimRight(SubSeq(s, 1, Len(s) - 1))
  ELSE s

\* String::trim(): leading and trailing white space removed.
trim(s) == TrimRight(TrimLeft(s))

\* String::startsWith(prefix)
startsWith(s, p) == Len(p) <= Len(s) /\ SubSeq(s, 1, Len(p)) = p

\* String::indexOf(ch, from): 0-based index of the first ch at or after
\* from, -1 when there is none.
indexOf(s, ch, from) ==
  LET hits == {i \in 0 .. (Len(s) - 1) : i >= from /\ s[i + 1] = ch}
  IN IF hits = {} THEN -1 ELSE Min(hits)

\* String::substring(left, right): the characters [left, right), 0-based.
\* The parameters are unsigned int; they are swapped when left > right, and
\* right is cut to the length.
substring(s, left, right) ==
  LET ul == left % 65536
      ur == right % 65536
      l == IF ul > ur THEN ur ELSE ul
      r == IF ul > ur THEN ul ELSE ur
      rr == IF r > Len(s) THEN Len(s) ELSE r
  IN IF l >= Len(s) THEN <<>> ELSE SubSeq(s, l + 1, rr)

\* String::substring(left): to the end of the string.
substringFrom(s, left) == substring(s, left, Len(s))

\* String::replace(find, with): every occurrence, left to right.
RECURSIVE replace(_, _, _)
replace(s, f, r) ==
  IF f = <<>> \/ Len(s) < Len(f) THEN s
  ELSE IF SubSeq(s, 1, Len(f)) = f
       THEN r \o replace(SubSeq(s, Len(f) + 1, Len(s)), f, r)
       ELSE <<Head(s)>> \o replace(Tail(s), f, r)

RECURSIVE atolDigits(_, _)
atolDigits(s, acc) ==
  IF s # <<>> /\ IsDigit(Head(s))
  THEN atolDigits(Tail(s), acc * 10 + DigitVal(Head(s)))
  ELSE acc

\* String::toInt() is atol(): white space, an optional sign, then the
\* leading digits; 0 when there are none. The result is a long.
toInt(s) ==
  LET t == TrimLeft(s)
  IN IF t = <<>> THEN 0
     ELSE IF Head(t) = "-" THEN 0 - atolDigits(Tail(t), 0)
     ELSE IF Head(t) = "+" THEN atolDigits(Tail(t), 0)
     ELSE atolDigits(t, 0)

\* A long stored in an int of the target (16 bits, two's complement).
ToInt16(x) == ((x + 32768) % 65536) - 32768

InInt16(x) == x >= -32768 /\ x <= 32767

\* ------------------------------------------------------------ command lines
S_START == <<"S", "T", "A", "R", "T">>
S_STOP == <<"S", "T", "O", "P">>
S_STATUS == <<"S", "T", "A", "T", "U", "S">>
S_UPDATE == <<"U", "P", "D", "A", "T", "E", ":">>
S_TRUE == <<"t", "r", "u", "e">>
S_FALSE == <<"f", "a", "l", "s", "e">>
S_RESET == <<"R", "E", "S", "E", "T">>

\* The line UPDATE:<road>:<count>:<emergency>
UpdateLine(road, count, emergency) ==
  S_UPDATE \o road \o <<":">> \o count \o <<":">> \o emergency

\* Well-formed UPDATE lines: road in 1..4, a non-negative count, a boolean.
ValidUpdates ==
  { UpdateLine(<<"2">>, <<"9">>, S_FALSE),
    UpdateLine(<<"3">>, <<"1">>, S_TRUE) }

\* UPDATE lines whose road number is outside 1..4.
BadRoadUpdates ==
  { UpdateLine(<<"9">>, <<"5">>, S_TRUE),
    UpdateLine(<<"6", "5", "5", "3", "7">>, <<"5">>, S_TRUE) }

\* UPDATE lines with a missing field, a non-numeric or a negative count.
MalformedUpdates ==
  { S_UPDATE \o <<"1", ":", "5">>,
    UpdateLine(<<"1">>, <<"a", "b", "c">>, S_TRUE),
    UpdateLine(<<"2">>, <<"-", "5">>, S_FALSE) }

\* What an operator's console sends: the commands of the setup guide.
CmdLines == {S_START, S_STOP, S_STATUS} \cup ValidUpdates

\* What a faulty host sends: lines that must be rejected, among a few that
\* must not.
InputLines ==
  {S_START, S_STOP, S_RESET}
    \cup ValidUpdates \cup BadRoadUpdates \cup MalformedUpdates

\* What a detection feed sends once the system is started: UPDATE lines, two
\* of them for the same road.
FeedLines ==
  {S_START} \cup ValidUpdates \cup {UpdateLine(<<"2">>, <<"1">>, S_TRUE)}

\* The sequences of at most n lines of a set.
RECURSIVE Batches(_, _)
Batches(lines, n) ==
  IF n = 0 THEN {<<>>}
  ELSE Batches(lines, n - 1)
         \cup {Append(b, line) : b \in Batches(lines, n - 1), line \in lines}

\* What can be received between two iterations of loop().
Arrivals == Batches(CmdLines, MaxQueue)

InputArrivals == Batches(InputLines, MaxQueue)

FeedArrivals == Batches(FeedLines, MaxQueue)

\* -------------------------------------------------------------------- state
VARIABLES
  sketch,                \* which of the two sketches is on the board
  millis,                \* millis(): milliseconds since the end of setup()
  serialBuf,             \* command lines received and not yet read
  serialIn,              \* the lines the step just taken read from Serial
  serialOut,             \* the replies the step just taken wrote to Serial
                         \* (not the "[...]" diagnostic lines of sketch 1)
  leds,                  \* the output pins: per road, its three lamps
  prevLeds,              \* the lamps before the step just taken
  greenSince,            \* millis() when the lit green lamp was lit, or -1
  pc,                    \* where loop() is: "loop" at its top, "tick" after
                         \* the commands were handled, otherwise the
                         \* function whose delay() is running
  vehicleCounts,         \* both sketches
  emergencyStatus,       \* sketch 1
  trafficSystemRunning,  \* sketch 1
  currentRoad,           \* sketch 1
  greenEndTime,          \* sketch 1
  greenActive,           \* sketch 1
  now,                   \* sketch 1: loop()'s local, while a delay runs
  emergencyOverride,     \* sketch 2
  systemActive,          \* sketch 2
  currentGreenRoad,      \* sketch 2
  lastSwitchTime,        \* sketch 2
  currentTime,           \* sketch 2: manageTrafficLights' local
  road,                  \* sketch 2: switchToRoad's parameter
  cameras,               \* CameraGrid: per lane, what its camera reports
  globalDetectionActive, \* CameraGrid
  signalColors,          \* CameraGrid: per lane, the signal colour rendered
  hook,                  \* one instance of useWebSocketDetection: its
                         \* props, refs and state, its sockets and timers
  webcam,                \* WebcamCapture: what it knows of the backend's
                         \* health, its retry timer and its checks
  panel                  \* ArduinoController: its state and its requests

vars ==
  << sketch, millis, serialBuf, serialIn, serialOut, leds, prevLeds,
     greenSince, pc, vehicleCounts, emergencyStatus, trafficSystemRunning,
     currentRoad, greenEndTime, greenActive, now, emergencyOverride,
     systemActive, currentGreenRoad, lastSwitchTime, currentTime, road,
     cameras, globalDetectionActive, signalColors, hook, webcam, panel >>

\* The board's state, and the web application's.
boardVars ==
  << sketch, millis, serialBuf, serialIn, serialOut, leds, prevLeds,
     greenSince, pc, vehicleCounts, emergencyStatus, trafficSystemRunning,
     currentRoad, greenEndTime, greenActive, now, emergencyOverride,
     systemActive, currentGreenRoad, lastSwitchTime, currentTime, road >>

gridVars == <<cameras, globalDetectionActive, signalColors>>

\* The web application's state, and all state but one component's.
appVars == <<gridVars, hook, webcam, panel>>

notGridVars == <<boardVars, hook, webcam, panel>>

notHookVars == <<boardVars, gridVars, webcam, panel>>

notWebcamVars == <<boardVars, gridVars, hook, panel>>

notPanelVars == <<boardVars, gridVars, hook, webcam>>

sketch1Vars ==
  << emergencyStatus, trafficSystemRunning, currentRoad, greenEndTime,
     greenActive, now >>

sketch2Vars ==
  << emergencyOverride, systemActive, currentGreenRoad, lastSwitchTime,
     currentTime, road >>

\* ------------------------------------------------------------------- lamps
RedOnly == [red |-> TRUE, yellow |-> FALSE, green |-> FALSE]

\* allRedLights() of sketch 1, setAllRed() of sketch 2
allRedLights == [i \in Roads |-> RedOnly]

\* The lamps become l at time t: prevLeds and greenSince follow.
WriteLeds(l, t) ==
  /\ leds' = l
  /\ prevLeds' = leds
  /\ greenSince' =
       IF \A i \in Roads : ~l[i].green THEN -1
       ELSE IF \E i \in Roads : l[i].green /\ ~leds[i].green THEN t
       ELSE greenSince

\* One line written to Serial: its text and, for a status report, the values
\* reported with it.
Msg(message, status) == [message |-> message, status |-> status]

\* =============================================================== sketch 1
\* The globals handleSerialCommands() reads and writes, and its output.
Globals1 ==
  [ vehicleCounts |-> vehicleCounts,
    emergencyStatus |-> emergencyStatus,
    trafficSystemRunning |-> trafficSystemRunning,
    currentRoad |-> currentRoad,
    greenActive |-> greenActive,
    leds |-> leds,
    out |-> <<>> ]

\* sendJsonMessage(message, includeStatus)
sendJsonMessage(g, message, includeStatus) ==
  [g EXCEPT !.out =
     Append(@, Msg(message,
                   IF includeStatus
                   THEN <<g.trafficSystemRunning, g.currentRoad + 1>>
                   ELSE <<>>))]

\* The locals of parseUpdateCommand(cmd) of sketch 1, lines 137-148 (those
\* of lines 146-148 are read only when both colons were found).
updateFields1(cmd) ==
  LET c == replace(cmd, S_UPDATE, <<>>)
      firstColon == indexOf(c, ":", 0)
      secondColon == indexOf(c, ":", firstColon + 1)
  IN [ firstColon |-> firstColon,
       secondColon |-> secondColon,
       road |-> ToInt16(toInt(substring(c, 0, firstColon)) - 1),
       count |-> ToInt16(toInt(substring(c, firstColon + 1, secondColon))),
       emergencyStr |-> substringFrom(c, secondColon + 1) ]

\* Lines 100-101 and 137-148 for every line that can be received: the
\* trimmed line and, of an UPDATE, its fields. (A table, so that a line is
\* parsed once.)
SerialLines1 ==
  [ line \in CmdLines \cup InputLines \cup FeedLines |->
      LET inputBuffer == trim(line)
      IN [ inputBuffer |-> inputBuffer,
           update |-> updateFields1(inputBuffer) ] ]

\* parseUpdateCommand1 storing nothing while the system is stopped (what
\* the acceptance of UPDATE in any session state rules out).
parseUpdateCommand1WhenRunning(g, u) ==
  IF u.firstColon = -1 \/ u.secondColon = -1
  THEN sendJsonMessage(g, <<"Invalid UPDATE format">>, FALSE)
  ELSE IF u.road >= 0 /\ u.road < NUM_ROADS
       THEN sendJsonMessage(
              IF g.trafficSystemRunning
              THEN [g EXCEPT !.vehicleCounts[u.road] = u.count,
                             !.emergencyStatus[u.road] =
                               (u.emergencyStr = S_TRUE)]
              ELSE g,
              << "Updated Road ", u.road + 1, ": Vehicles=", u.count,
                 ", Emergency=",
                 IF u.emergencyStr = S_TRUE THEN "true" ELSE "false" >>,
              FALSE)
       ELSE sendJsonMessage(g, <<"Invalid road ID">>, FALSE)

\* parseUpdateCommand1 that adds the count to the one stored and keeps a
\* flag once set (what last-writer-wins rules out).
parseUpdateCommand1Accumulating(g, u) ==
  LET firstColon == u.firstColon
      secondColon == u.secondColon
  IN IF firstColon = -1 \/ secondColon = -1
     THEN sendJsonMessage(g, <<"Invalid UPDATE format">>, FALSE)
     ELSE
       LET r == u.road
           count == u.count
           emergencyStr == u.emergencyStr
       IN IF r >= 0 /\ r < NUM_ROADS
          THEN sendJsonMessage(
                 [g EXCEPT !.vehicleCounts[r] = ToInt16(@ + count),
                           !.emergencyStatus[r] = @ \/ (emergencyStr = S_TRUE)],
                 << "Updated Road ", r + 1, ": Vehicles=", count,
                    ", Emergency=",
                    IF emergencyStr = S_TRUE THEN "true" ELSE "false" >>,
                 FALSE)
          ELSE sendJsonMessage(g, <<"Invalid road ID">>, FALSE)

\* parseUpdateCommand(cmd) of sketch 1; u holds its locals
parseUpdateCommand1(g, u) ==
  LET firstColon == u.firstColon
      secondColon == u.secondColon
  IN IF firstColon = -1 \/ secondColon = -1
     THEN sendJsonMessage(g, <<"Invalid UPDATE format">>, FALSE)
     ELSE
       LET r == u.road
           count == u.count
           emergencyStr == u.emergencyStr
       IN IF r >= 0 /\ r < NUM_ROADS
          THEN sendJsonMessage(
                 [g EXCEPT !.vehicleCounts[r] = count,
                           !.emergencyStatus[r] = (emergencyStr = S_TRUE)],
                 << "Updated Road ", r + 1, ": Vehicles=", count,
                    ", Emergency=",
                    IF emergencyStr = S_TRUE THEN "true" ELSE "false" >>,
                 FALSE)
          ELSE sendJsonMessage(g, <<"Invalid road ID">>, FALSE)

\* handleLine1 with a STOP that leaves the lamps as they are (what the
\* all-red property of STOP rules out).
handleLine1KeepsLamps(g, line) ==
  LET inputBuffer == SerialLines1[line].inputBuffer
  IN IF Len(inputBuffer) = 0 THEN g
     ELSE IF inputBuffer = S_STATUS
     THEN sendJsonMessage(g, <<"System operational">>, TRUE)
     ELSE IF inputBuffer = S_START
     THEN sendJsonMessage([g EXCEPT !.trafficSystemRunning = TRUE],
                          <<"Traffic system started">>, FALSE)
     ELSE IF inputBuffer = S_STOP
     THEN sendJsonMessage(
            [g EXCEPT !.trafficSystemRunning = FALSE,
                      !.greenActive = FALSE,
                      !.currentRoad = -1],
            <<"Traffic system stopped">>, FALSE)
     ELSE IF startsWith(inputBuffer, S_UPDATE)
     THEN parseUpdateCommand1(g, SerialLines1[line].update)
     ELSE sendJsonMessage(g, <<"Unknown command">>, FALSE)

\* handleLine1 with a STOP that also clears the stopped road's data (what
\* the preservation of road data by STOP rules out).
handleLine1StopClears(g, line) ==
  LET inputBuffer == SerialLines1[line].inputBuffer
  IN IF Len(inputBuffer) = 0 THEN g
     ELSE IF inputBuffer = S_STATUS
     THEN sendJsonMessage(g, <<"System operational">>, TRUE)
     ELSE IF inputBuffer = S_START
     THEN sendJsonMessage([g EXCEPT !.trafficSystemRunning = TRUE],
                          <<"Traffic system started">>, FALSE)
     ELSE IF inputBuffer = S_STOP
     THEN sendJsonMessage(
            [g EXCEPT !.trafficSystemRunning = FALSE,
                      !.leds = allRedLights,
                      !.greenActive = FALSE,
                      !.currentRoad = -1,
                      !.vehicleCounts = [i \in Roads |-> 0],
                      !.emergencyStatus = [i \in Roads |-> FALSE]],
            <<"Traffic system stopped">>, FALSE)
     ELSE IF startsWith(inputBuffer, S_UPDATE)
     THEN parseUpdateCommand1(g, SerialLines1[line].update)
     ELSE sendJsonMessage(g, <<"Unknown command">>, FALSE)

\* One received line, lines 100-126.
handleLine1(g, line) ==
  LET inputBuffer == SerialLines1[line].inputBuffer
  IN IF Len(inputBuffer) = 0 THEN g
     ELSE IF inputBuffer = S_STATUS
     THEN sendJsonMessage(g, <<"System operational">>, TRUE)
     ELSE IF inputBuffer = S_START
     THEN sendJsonMessage([g EXCEPT !.trafficSystemRunning = TRUE],
                          <<"Traffic system started">>, FALSE)
     ELSE IF inputBuffer = S_STOP
     THEN sendJsonMessage(
            [g EXCEPT !.trafficSystemRunning = FALSE,
                      !.leds = allRedLights,
                      !.greenActive = FALSE,
                      !.currentRoad = -1],
            <<"Traffic system stopped">>, FALSE)
     ELSE IF startsWith(inputBuffer, S_UPDATE)
     THEN parseUpdateCommand1(g, SerialLines1[line].update)
     ELSE sendJsonMessage(g, <<"Unknown command">>, FALSE)

\* handleSerialCommands(): every line that is available, in order.
RECURSIVE handleSerialCommands(_, _)
handleSerialCommands(g, buf) ==
  IF buf = <<>> THEN g
  ELSE handleSerialCommands(handleLine1(g, Head(buf)), Tail(buf))

\* firstEmergency scanning from the last road (what the emergency
\* precedence rules out).
RECURSIVE lastEmergency(_, _)
lastEmergency(flags, i) ==
  IF i >= NUM_ROADS THEN -1
  ELSE IF lastEmergency(flags, i + 1) # -1
       THEN lastEmergency(flags, i + 1)
       ELSE IF flags[i] THEN i ELSE -1

\* The first loop of getHighestPriorityRoad(): the first road whose
\* emergency flag is set, -1 when there is none.
RECURSIVE firstEmergency(_, _)
firstEmergency(flags, i) ==
  IF i >= NUM_ROADS THEN -1
  ELSE IF flags[i] THEN i
  ELSE firstEmergency(flags, i + 1)

\* maxCountScan with >= for > (what the tie-break by lowest road rules
\* out).
RECURSIVE maxCountScanLast(_, _, _, _)
maxCountScanLast(counts, i, maxCount, selected) ==
  IF i >= NUM_ROADS THEN selected
  ELSE IF counts[i] >= maxCount
       THEN maxCountScanLast(counts, i + 1, counts[i], i)
       ELSE maxCountScanLast(counts, i + 1, maxCount, selected)

\* The second loop of getHighestPriorityRoad().
RECURSIVE maxCountScan(_, _, _, _)
maxCountScan(counts, i, maxCount, selected) ==
  IF i >= NUM_ROADS THEN selected
  ELSE IF counts[i] > maxCount
       THEN maxCountScan(counts, i + 1, counts[i], i)
       ELSE maxCountScan(counts, i + 1, maxCount, selected)

getHighestPriorityRoad(counts, flags) ==
  IF firstEmergency(flags, 0) # -1
  THEN firstEmergency(flags, 0)
  ELSE maxCountScan(counts, 0, 0, -1)

\* constrain(amt, low, high)
constrain(amt, low, high) ==
  IF amt < low THEN low ELSE IF amt > high THEN high ELSE amt

\* dynamicDelay without line 191 (what the bounds of the green duration
\* rule out).
dynamicDelayUnconstrained(count) ==
  {ToInt16(BASE_GREEN_DELAY + count * VEHICLE_FACTOR)}

\* Lines 190-191: the values dynamicDelay can have. The arithmetic is in
\* int; when it overflows (undefined behaviour) the 16-bit instructions give
\* the wrapped value, and whatever the int holds, constrain() returns a value
\* of the range: its two ends stand for the other outcomes.
dynamicDelay(count) ==
  LET product == count * VEHICLE_FACTOR
      sum == BASE_GREEN_DELAY + product
  IN IF InInt16(product) /\ InInt16(sum)
     THEN {constrain(sum, MIN_GREEN_DELAY, MAX_GREEN_DELAY)}
     ELSE { constrain(ToInt16(sum), MIN_GREEN_DELAY, MAX_GREEN_DELAY),
            MIN_GREEN_DELAY, MAX_GREEN_DELAY }

\* endGreenLightBegin going from green to red at once (what the phase
\* order rules out).
endGreenLightNoYellow(l, r) ==
  [l EXCEPT ![r].green = FALSE, ![r].red = TRUE]

\* endGreenLight(road) up to its delay(), lines 211-212
endGreenLightBegin(l, r) ==
  [l EXCEPT ![r].green = FALSE, ![r].yellow = TRUE]

\* Line 58 of loop(): handleSerialCommands() with lines to read. arrived are
\* the lines received since the last iteration, after those a delay() left
\* unread.
HandleSerial1(arrived) ==
  /\ sketch = 1
  /\ pc = "loop"
  /\ Len(serialBuf) + Len(arrived) <= MaxQueue
  /\ serialBuf \o arrived # <<>>
  /\ \E g \in {handleSerialCommands(Globals1, serialBuf \o arrived)} :
        /\ vehicleCounts' = g.vehicleCounts
        /\ emergencyStatus' = g.emergencyStatus
        /\ trafficSystemRunning' = g.trafficSystemRunning
        /\ currentRoad' = g.currentRoad
        /\ greenActive' = g.greenActive
        /\ WriteLeds(g.leds, millis)
        /\ serialOut' = g.out
  /\ serialIn' = serialBuf \o arrived
  /\ serialBuf' = <<>>
  /\ pc' = "tick"
  /\ UNCHANGED appVars
  /\ UNCHANGED <<sketch, millis, greenEndTime, now, sketch2Vars>>

\* RunTraffic1 without the test of trafficSystemRunning on line 62 (what a
\* no-op while stopped rules out).
RunTraffic1WhileStopped ==
  /\ sketch = 1
  /\ pc \in {"loop", "tick"}
  /\ serialIn' = <<>>
  /\ \E nextRoad \in {getHighestPriorityRoad(vehicleCounts, emergencyStatus)} :
        IF ~greenActive /\ nextRoad # -1
        THEN \E d \in dynamicDelay(vehicleCounts[nextRoad]) :
               /\ currentRoad' = nextRoad
               /\ greenEndTime' = millis + d
               /\ serialOut' =
                    <<Msg(<<"Green light for Road ", nextRoad + 1,
                            " for ", d, "ms">>, <<>>)>>
               /\ WriteLeds([allRedLights EXCEPT
                               ![nextRoad].red = FALSE,
                               ![nextRoad].yellow = TRUE], millis)
               /\ now' = millis
               /\ pc' = "startGreenLight"
        ELSE IF greenActive /\ millis >= greenEndTime
        THEN /\ WriteLeds(endGreenLightBegin(leds, currentRoad), millis)
             /\ pc' = "endGreenLight"
             /\ now' = millis
             /\ serialOut' = <<>>
             /\ UNCHANGED <<currentRoad, greenEndTime>>
        ELSE /\ WriteLeds(leds, millis)
             /\ pc' = "loop"
             /\ serialOut' = <<>>
             /\ UNCHANGED <<currentRoad, greenEndTime, now>>
  /\ UNCHANGED appVars
  /\ UNCHANGED << sketch, millis, serialBuf, vehicleCounts, emergencyStatus,
                  trafficSystemRunning, greenActive, sketch2Vars >>

\* Lines 60-78 of loop(), up to the first delay() they reach.
RunTraffic1 ==
  /\ sketch = 1
  /\ pc \in {"loop", "tick"}
  /\ serialIn' = <<>>
  /\ \E nextRoad \in {getHighestPriorityRoad(vehicleCounts, emergencyStatus)} :
        IF trafficSystemRunning /\ ~greenActive /\ nextRoad # -1
        THEN \* lines 67-68, startGreenLight() up to its delay()
             \E d \in dynamicDelay(vehicleCounts[nextRoad]) :
               /\ currentRoad' = nextRoad
               /\ greenEndTime' = millis + d
               /\ serialOut' =
                    <<Msg(<<"Green light for Road ", nextRoad + 1,
                            " for ", d, "ms">>, <<>>)>>
               /\ WriteLeds([allRedLights EXCEPT
                               ![nextRoad].red = FALSE,
                               ![nextRoad].yellow = TRUE], millis)
               /\ now' = millis
               /\ pc' = "startGreenLight"
        ELSE IF trafficSystemRunning /\ greenActive /\ millis >= greenEndTime
        THEN \* line 74, endGreenLight() up to its delay()
             /\ WriteLeds(endGreenLightBegin(leds, currentRoad), millis)
             /\ pc' = "endGreenLight"
             /\ now' = millis
             /\ serialOut' = <<>>
             /\ UNCHANGED <<currentRoad, greenEndTime>>
        ELSE /\ WriteLeds(leds, millis)
             /\ pc' = "loop"
             /\ serialOut' = <<>>
             /\ UNCHANGED <<currentRoad, greenEndTime, now>>
  /\ UNCHANGED appVars
  /\ UNCHANGED << sketch, millis, serialBuf, vehicleCounts, emergencyStatus,
                  trafficSystemRunning, greenActive, sketch2Vars >>

\* StartGreenLightDwell without line 203: the yellow lamp stays lit beside
\* the green (what the consistency of lamps and flags rules out).
StartGreenLightDwellKeepsYellow ==
  /\ sketch = 1
  /\ pc = "startGreenLight"
  /\ millis + YELLOW_DELAY <= MaxTime
  /\ millis' = millis + YELLOW_DELAY
  /\ greenActive' = TRUE
  /\ serialIn' = <<>>
  /\ serialOut' = <<>>
  /\ LET lit == [leds EXCEPT ![currentRoad].green = TRUE]
     IN IF now >= greenEndTime
        THEN /\ WriteLeds(endGreenLightBegin(lit, currentRoad),
                          millis + YELLOW_DELAY)
             /\ pc' = "endGreenLight"
             /\ UNCHANGED now
        ELSE /\ WriteLeds(lit, millis + YELLOW_DELAY)
             /\ pc' = "loop"
             /\ now' = 0
  /\ UNCHANGED appVars
  /\ UNCHANGED << sketch, serialBuf, vehicleCounts, emergencyStatus,
                  trafficSystemRunning, currentRoad, greenEndTime,
                  sketch2Vars >>

\* The delay(YELLOW_DELAY) of startGreenLight() ends: lines 203-207, then
\* lines 69 and 73-77 of loop(), whose now was read before the delay.
StartGreenLightDwell ==
  /\ sketch = 1
  /\ pc = "startGreenLight"
  /\ millis + YELLOW_DELAY <= MaxTime
  /\ millis' = millis + YELLOW_DELAY
  /\ greenActive' = TRUE
  /\ serialIn' = <<>>
  /\ serialOut' = <<>>
  /\ LET lit == [leds EXCEPT ![currentRoad].yellow = FALSE,
                             ![currentRoad].green = TRUE]
     IN IF now >= greenEndTime
        THEN /\ WriteLeds(endGreenLightBegin(lit, currentRoad),
                          millis + YELLOW_DELAY)
             /\ pc' = "endGreenLight"
             /\ UNCHANGED now
        ELSE /\ WriteLeds(lit, millis + YELLOW_DELAY)
             /\ pc' = "loop"
             /\ now' = 0
  /\ UNCHANGED appVars
  /\ UNCHANGED << sketch, serialBuf, vehicleCounts, emergencyStatus,
                  trafficSystemRunning, currentRoad, greenEndTime,
                  sketch2Vars >>

\* EndGreenLightDwell without lines 220-221 (what the reset after service
\* rules out).
EndGreenLightDwellNoReset ==
  /\ sketch = 1
  /\ pc = "endGreenLight"
  /\ millis + YELLOW_DELAY <= MaxTime
  /\ millis' = millis + YELLOW_DELAY
  /\ WriteLeds([leds EXCEPT ![currentRoad].yellow = FALSE,
                            ![currentRoad].red = TRUE],
               millis + YELLOW_DELAY)
  /\ greenActive' = FALSE
  /\ currentRoad' = -1
  /\ pc' = "loop"
  /\ now' = 0
  /\ serialIn' = <<>>
  /\ serialOut' = <<>>
  /\ UNCHANGED appVars
  /\ UNCHANGED << sketch, serialBuf, vehicleCounts, emergencyStatus,
                  trafficSystemRunning, greenEndTime, sketch2Vars >>

\* EndGreenLightDwell without line 221: the count is reset, a flag stored
\* during the green is kept (what the overwriting of demand reported during
\* a road's own green rules out).
EndGreenLightDwellKeepsFlag ==
  /\ sketch = 1
  /\ pc = "endGreenLight"
  /\ millis + YELLOW_DELAY <= MaxTime
  /\ millis' = millis + YELLOW_DELAY
  /\ WriteLeds([leds EXCEPT ![currentRoad].yellow = FALSE,
                            ![currentRoad].red = TRUE],
               millis + YELLOW_DELAY)
  /\ vehicleCounts' = [vehicleCounts EXCEPT ![currentRoad] = 0]
  /\ greenActive' = FALSE
  /\ currentRoad' = -1
  /\ pc' = "loop"
  /\ now' = 0
  /\ serialIn' = <<>>
  /\ serialOut' = <<>>
  /\ UNCHANGED appVars
  /\ UNCHANGED << sketch, serialBuf, emergencyStatus, trafficSystemRunning,
                  greenEndTime, sketch2Vars >>

\* The delay(YELLOW_DELAY) of endGreenLight() ends: lines 214-221, then
\* lines 75-76 of loop().
EndGreenLightDwell ==
  /\ sketch = 1
  /\ pc = "endGreenLight"
  /\ millis + YELLOW_DELAY <= MaxTime
  /\ millis' = millis + YELLOW_DELAY
  /\ WriteLeds([leds EXCEPT ![currentRoad].yellow = FALSE,
                            ![currentRoad].red = TRUE],
               millis + YELLOW_DELAY)
  /\ vehicleCounts' = [vehicleCounts EXCEPT ![currentRoad] = 0]
  /\ emergencyStatus' = [emergencyStatus EXCEPT ![currentRoad] = FALSE]
  /\ greenActive' = FALSE
  /\ currentRoad' = -1
  /\ pc' = "loop"
  /\ now' = 0
  /\ serialIn' = <<>>
  /\ serialOut' = <<>>
  /\ UNCHANGED appVars
  /\ UNCHANGED << sketch, serialBuf, trafficSystemRunning, greenEndTime,
                  sketch2Vars >>

\* =============================================================== sketch 2
\* The globals processCommand() reads and writes, and its output.
Globals2 ==
  [ vehicleCounts |-> vehicleCounts,
    emergencyOverride |-> emergencyOverride,
    systemActive |-> systemActive,
    currentGreenRoad |-> currentGreenRoad,
    lastSwitchTime |-> lastSwitchTime,
    leds |-> leds,
    out |-> <<>> ]

\* Serial.println(text)
println(g, text) == [g EXCEPT !.out = Append(@, Msg(text, <<>>))]

\* serialEvent(): every received character is appended to inputString, so
\* the lines that are available end up in one string.
RECURSIVE serialEvent(_)
serialEvent(buf) ==
  IF buf = <<>> THEN <<>>
  ELSE Head(buf) \o <<"\n">> \o serialEvent(Tail(buf))

\* The locals of parseUpdateCommand(command) of sketch 2, lines 343-349
\* (those of lines 347-349 are read only when both colons were found).
updateFields2(command) ==
  LET firstColon == indexOf(command, ":", 7)
      secondColon == indexOf(command, ":", firstColon + 1)
  IN [ firstColon |-> firstColon,
       secondColon |-> secondColon,
       road |-> ToInt16(toInt(substring(command, 7, firstColon))),
       vehicles |->
         ToInt16(toInt(substring(command, firstColon + 1, secondColon))),
       emergency |-> (substringFrom(command, secondColon + 1) = S_TRUE) ]

\* Line 318 and lines 343-349 for every inputString that can be complete.
\* (A table, so that a string is parsed once.)
SerialLines2 ==
  [ inputString \in
      {serialEvent(b) :
         b \in (Arrivals \cup InputArrivals \cup FeedArrivals) \ {<<>>}} |->
      LET command == trim(inputString)
      IN [ command |-> command,
           update |-> updateFields2(command) ] ]

\* parseUpdateCommand2 that also makes the road of an emergency the served
\* road at once (the cascading recompute that writing one road only rules
\* out).
parseUpdateCommand2Cascading(g, u) ==
  IF u.firstColon # -1 /\ u.secondColon # -1
  THEN IF u.road >= 1 /\ u.road <= 4
       THEN println(
              [g EXCEPT !.vehicleCounts[u.road - 1] = u.vehicles,
                        !.emergencyOverride[u.road - 1] = u.emergency,
                        !.currentGreenRoad =
                           IF u.emergency THEN u.road ELSE @],
              << "Updated Road ", u.road, ": ", u.vehicles,
                 " vehicles, Emergency: ", u.emergency >>)
       ELSE g
  ELSE g

\* parseUpdateCommand(command) of sketch 2; u holds its locals
parseUpdateCommand2(g, u) ==
  IF u.firstColon # -1 /\ u.secondColon # -1
  THEN IF u.road >= 1 /\ u.road <= 4
       THEN println(
              [g EXCEPT !.vehicleCounts[u.road - 1] = u.vehicles,
                        !.emergencyOverride[u.road - 1] = u.emergency],
              << "Updated Road ", u.road, ": ", u.vehicles,
                 " vehicles, Emergency: ", u.emergency >>)
       ELSE g
  ELSE g

\* sendStatus(): the lines it prints, as one report
sendStatus(g) ==
  [g EXCEPT !.out =
     Append(@, Msg(<<"=== TRAFFIC SYSTEM STATUS ===">>,
                   << g.systemActive, g.currentGreenRoad,
                      g.vehicleCounts, g.emergencyOverride >>))]

\* processCommand(command), called at time t
processCommand(g, inputString, t) ==
  LET command == SerialLines2[inputString].command
  IN IF command = S_START
     THEN println([g EXCEPT !.systemActive = TRUE,
                            !.currentGreenRoad = 1,
                            !.lastSwitchTime = t],
                  <<"Traffic system STARTED">>)
     ELSE IF command = S_STOP
     THEN println([g EXCEPT !.systemActive = FALSE,
                            !.leds = allRedLights],
                  <<"Traffic system STOPPED">>)
     ELSE IF startsWith(command, S_UPDATE)
     THEN parseUpdateCommand2(g, SerialLines2[inputString].update)
     ELSE IF command = S_STATUS
     THEN sendStatus(g)
     ELSE g

\* getEmergencyRoad(): the first road whose flag is set, -1 when none is.
RECURSIVE getEmergencyRoad(_, _)
getEmergencyRoad(flags, i) ==
  IF i >= 4 THEN -1
  ELSE IF flags[i] THEN i
  ELSE getEmergencyRoad(flags, i + 1)

\* The loop of getHighestTrafficRoad().
RECURSIVE maxRoadScan(_, _, _, _)
maxRoadScan(counts, i, maxVehicles, maxRoad) ==
  IF i >= 4 THEN maxRoad
  ELSE IF counts[i] > maxVehicles
       THEN maxRoadScan(counts, i + 1, counts[i], i + 1)
       ELSE maxRoadScan(counts, i + 1, maxVehicles, maxRoad)

getHighestTrafficRoad(counts) == maxRoadScan(counts, 0, 0, 1)

\* setRoadYellow(road): the road's red lamp is not written
setRoadYellow(l, r) ==
  IF r \in 1 .. 4
  THEN [l EXCEPT ![r - 1].green = FALSE, ![r - 1].yellow = TRUE]
  ELSE l

\* setRoadGreen(road)
setRoadGreen(r) ==
  IF r \in 1 .. 4
  THEN [allRedLights EXCEPT ![r - 1].red = FALSE, ![r - 1].green = TRUE]
  ELSE allRedLights

\* switchTarget without the return of line 375: with the emergency road
\* served, the switching by counts goes on (what holding the green for an
\* emergency rules out).
switchTargetFallsThrough(counts, flags, green, last, t) ==
  LET emergencyRoad == getEmergencyRoad(flags, 0)
      nextRoad == getHighestTrafficRoad(counts)
  IN IF emergencyRoad # -1 /\ green # emergencyRoad + 1
     THEN emergencyRoad + 1
     ELSE IF t - last >= NORMAL_GREEN_TIME /\ nextRoad # green
          THEN nextRoad
          ELSE 0

\* manageTrafficLights() at time t: the road it calls switchToRoad() with,
\* 0 when it does not call it.
switchTarget(counts, flags, green, last, t) ==
  LET emergencyRoad == getEmergencyRoad(flags, 0)
      nextRoad == getHighestTrafficRoad(counts)
  IN IF emergencyRoad # -1
     THEN IF green # emergencyRoad + 1 THEN emergencyRoad + 1 ELSE 0
     ELSE IF t - last >= NORMAL_GREEN_TIME /\ nextRoad # green
          THEN nextRoad
          ELSE 0

\* manageTrafficLights() at time t takes line 389.
extendsGreen(counts, flags, green, last, t) ==
  /\ getEmergencyRoad(flags, 0) = -1
  /\ t - last >= NORMAL_GREEN_TIME
  /\ getHighestTrafficRoad(counts) = green

\* serialEvent() and lines 303-307 of loop(), with lines to read.
HandleSerial2(arrived) ==
  /\ sketch = 2
  /\ pc = "loop"
  /\ Len(serialBuf) + Len(arrived) <= MaxQueue
  /\ serialBuf \o arrived # <<>>
  /\ \E g \in {processCommand(Globals2, serialEvent(serialBuf \o arrived),
                              millis)} :
        /\ vehicleCounts' = g.vehicleCounts
        /\ emergencyOverride' = g.emergencyOverride
        /\ systemActive' = g.systemActive
        /\ currentGreenRoad' = g.currentGreenRoad
        /\ lastSwitchTime' = g.lastSwitchTime
        /\ WriteLeds(g.leds, millis)
        /\ serialOut' = g.out
  /\ serialIn' = serialBuf \o arrived
  /\ serialBuf' = <<>>
  /\ pc' = "tick"
  /\ UNCHANGED appVars
  /\ UNCHANGED <<sketch, millis, currentTime, road, sketch1Vars>>

\* Lines 310-312 of loop(): manageTrafficLights() up to the first delay() it
\* reaches.
RunTraffic2 ==
  /\ sketch = 2
  /\ pc \in {"loop", "tick"}
  /\ serialIn' = <<>>
  /\ serialOut' = <<>>
  /\ \E target \in {switchTarget(vehicleCounts, emergencyOverride,
                                 currentGreenRoad, lastSwitchTime, millis)} :
        IF systemActive /\ target # 0
        THEN \* switchToRoad(target) up to its first delay()
             /\ WriteLeds(setRoadYellow(leds, currentGreenRoad), millis)
             /\ road' = target
             /\ currentTime' = millis
             /\ pc' = "switchYellow"
             /\ UNCHANGED lastSwitchTime
        ELSE IF systemActive
                  /\ extendsGreen(vehicleCounts, emergencyOverride,
                                  currentGreenRoad, lastSwitchTime, millis)
        THEN /\ lastSwitchTime' = millis - (NORMAL_GREEN_TIME \div 2)
             /\ WriteLeds(leds, millis)
             /\ pc' = "loop"
             /\ UNCHANGED <<road, currentTime>>
        ELSE /\ WriteLeds(leds, millis)
             /\ pc' = "loop"
             /\ UNCHANGED <<road, currentTime, lastSwitchTime>>
  /\ UNCHANGED appVars
  /\ UNCHANGED << sketch, millis, serialBuf, vehicleCounts,
                  emergencyOverride, systemActive, currentGreenRoad,
                  sketch1Vars >>

\* The delay(YELLOW_TIME) of switchToRoad() ends: line 423.
SwitchYellowDwell ==
  /\ sketch = 2
  /\ pc = "switchYellow"
  /\ millis + YELLOW_TIME <= MaxTime
  /\ millis' = millis + YELLOW_TIME
  /\ WriteLeds(allRedLights, millis + YELLOW_TIME)
  /\ pc' = "switchAllRed"
  /\ serialIn' = <<>>
  /\ serialOut' = <<>>
  /\ UNCHANGED appVars
  /\ UNCHANGED << sketch, serialBuf, vehicleCounts, emergencyOverride,
                  systemActive, currentGreenRoad, lastSwitchTime,
                  currentTime, road, sketch1Vars >>

\* The delay(500) of switchToRoad() ends: lines 427-431, then line 373 or
\* 386 of manageTrafficLights().
SwitchAllRedDwell ==
  /\ sketch = 2
  /\ pc = "switchAllRed"
  /\ millis + ALL_RED_TIME <= MaxTime
  /\ millis' = millis + ALL_RED_TIME
  /\ WriteLeds(setRoadGreen(road), millis + ALL_RED_TIME)
  /\ currentGreenRoad' = road
  /\ lastSwitchTime' = currentTime
  /\ serialOut' = <<Msg(<<"Switched to Road ", road>>, <<>>)>>
  /\ serialIn' = <<>>
  /\ pc' = "loop"
  /\ currentTime' = 0
  /\ road' = 0
  /\ UNCHANGED appVars
  /\ UNCHANGED << sketch, serialBuf, vehicleCounts, emergencyOverride,
                  systemActive, sketch1Vars >>

\* ============================================================ environment
\* Receive in a sketch whose delay() polls Serial: STOP is obeyed when it
\* arrives, in the middle of the yellow (what running to completion rules
\* out).
ReceiveStopInterrupts(line) ==
  /\ pc \notin {"loop", "tick"}
  /\ Len(serialBuf) < MaxQueue
  /\ serialIn' = <<>>
  /\ serialOut' = <<>>
  /\ IF sketch = 1 /\ line = S_STOP
     THEN /\ serialBuf' = serialBuf
          /\ WriteLeds(allRedLights, millis)
          /\ trafficSystemRunning' = FALSE
          /\ greenActive' = FALSE
          /\ currentRoad' = -1
          /\ pc' = "loop"
     ELSE /\ serialBuf' = Append(serialBuf, line)
          /\ WriteLeds(leds, millis)
          /\ UNCHANGED <<pc, trafficSystemRunning, greenActive, currentRoad>>
  /\ UNCHANGED appVars
  /\ UNCHANGED << sketch, millis, vehicleCounts, emergencyStatus,
                  greenEndTime, now, sketch2Vars >>

\* A command line arrives while a delay() is running: it waits in the
\* receive buffer.
Receive(line) ==
  /\ pc \notin {"loop", "tick"}
  /\ Len(serialBuf) < MaxQueue
  /\ serialBuf' = Append(serialBuf, line)
  /\ serialIn' = <<>>
  /\ serialOut' = <<>>
  /\ WriteLeds(leds, millis)
  /\ UNCHANGED appVars
  /\ UNCHANGED << sketch, millis, pc, vehicleCounts, sketch1Vars,
                  sketch2Vars >>

\* An iteration of loop() that reads nothing would do something now.
LoopUrgent ==
  IF sketch = 1
  THEN /\ trafficSystemRunning
       /\ \/ /\ ~greenActive
             /\ getHighestPriorityRoad(vehicleCounts, emergencyStatus) # -1
          \/ greenActive /\ millis >= greenEndTime
  ELSE /\ systemActive
       /\ \/ switchTarget(vehicleCounts, emergencyOverride,
                          currentGreenRoad, lastSwitchTime, millis) # 0
          \/ extendsGreen(vehicleCounts, emergencyOverride,
                          currentGreenRoad, lastSwitchTime, millis)

\* The times at which an iteration that reads nothing does something.
Deadlines ==
  IF sketch = 1
  THEN IF trafficSystemRunning /\ greenActive THEN {greenEndTime} ELSE {}
  ELSE IF systemActive THEN {lastSwitchTime + NORMAL_GREEN_TIME} ELSE {}

\* Time passes over iterations of loop() that read nothing and do nothing
\* (in sketch 2 each ends with a delay(100)): up to the next deadline, and by
\* TimeStep at most.
Tick ==
  /\ pc = "loop"
  /\ ~LoopUrgent
  /\ millis < MaxTime
  /\ millis' = Min({d \in Deadlines : d > millis}
                     \cup {millis + TimeStep, MaxTime})
  /\ serialIn' = <<>>
  /\ serialOut' = <<>>
  /\ WriteLeds(leds, millis)
  /\ UNCHANGED appVars
  /\ UNCHANGED << sketch, serialBuf, pc, vehicleCounts, sketch1Vars,
                  sketch2Vars >>

\* ============================================ web application: CameraGrid
Lanes == 1..4

\* A lane's trafficCount is followed up to this value.
MaxCount == 2

GREEN_BORDER == "border-green-500"
RED_BORDER == "border-red-500"

\* useState() of cameras, lines 35-40 (without the names and the detections
\* kept for display)
InitialCameras ==
  [id \in Lanes |->
     [isActive |-> FALSE, trafficCount |-> 0, hasEmergencyVehicle |-> FALSE]]

\* What a detection pass reports: the classes of its predictions.
Predictions ==
  {<<>>, <<"car">>, <<"ambulance">>, <<"car", "ambulance">>}

\* Lines 75-78: the class names here are lower-case words, for which
\* includes() is equality.
isEmergencyClass(class) ==
  class \in {"ambulance", "emergency", "fire", "police"}

\* reduce() of getHighestTrafficCamera over the active cameras in array
\* order, prev being the camera kept so far (0: none yet)
RECURSIVE reduceHighest(_, _, _)
reduceHighest(cams, id, prev) ==
  IF id > 4 THEN prev
  ELSE IF ~cams[id].isActive THEN reduceHighest(cams, id + 1, prev)
  ELSE IF prev = 0 THEN reduceHighest(cams, id + 1, id)
  ELSE reduceHighest(cams, id + 1,
                     IF cams[id].trafficCount > cams[prev].trafficCount
                     THEN id ELSE prev)

\* getHighestTrafficCamera(): the id of the camera, 0 for null
getHighestTrafficCamera(cams) == reduceHighest(cams, 1, 0)

\* getTrafficSignalColor(camera), for the camera of lane id
getTrafficSignalColor(cams, id) ==
  IF ~cams[id].isActive THEN RED_BORDER
  ELSE IF \E c \in Lanes : cams[c].isActive /\ cams[c].hasEmergencyVehicle
  THEN IF cams[id].hasEmergencyVehicle THEN GREEN_BORDER ELSE RED_BORDER
  ELSE IF getHighestTrafficCamera(cams) = id
  THEN GREEN_BORDER ELSE RED_BORDER

\* The Traffic Light Status card, lines 271-284: one signal per camera.
renderSignals(cams) == [id \in Lanes |-> getTrafficSignalColor(cams, id)]

\* signalColor.includes('green'), line 273
isGreen(signalColor) == signalColor = GREEN_BORDER

\* handleDetectionUpdate(cameraId, predictions), and the render that the
\* new state causes
handleDetectionUpdate(cameraId, predictions) ==
  /\ cameras[cameraId].trafficCount + Len(predictions) <= MaxCount
  /\ \E cams \in
        {[cameras EXCEPT
            ![cameraId].trafficCount = @ + Len(predictions),
            ![cameraId].hasEmergencyVehicle =
               \E k \in DOMAIN predictions :
                 isEmergencyClass(predictions[k])]} :
        /\ cameras' = cams
        /\ signalColors' = renderSignals(cams)
  /\ UNCHANGED <<globalDetectionActive, notGridVars>>

\* handleStatusChange(cameraId, isActive), and the render
handleStatusChange(cameraId, isActive) ==
  /\ \E cams \in
        {[cameras EXCEPT
            ![cameraId].isActive = isActive,
            ![cameraId].hasEmergencyVehicle = IF isActive THEN @ ELSE FALSE]} :
        /\ cameras' = cams
        /\ signalColors' = renderSignals(cams)
  /\ UNCHANGED <<globalDetectionActive, notGridVars>>

\* startAllCameras(), behind the button shown while detection is off
startAllCameras ==
  /\ ~globalDetectionActive
  /\ globalDetectionActive' = TRUE
  /\ \E cams \in
        {[id \in Lanes |->
            [cameras[id] EXCEPT !.trafficCount = 0,
                                !.hasEmergencyVehicle = FALSE]]} :
        /\ cameras' = cams
        /\ signalColors' = renderSignals(cams)
  /\ UNCHANGED notGridVars

\* stopAllCameras(), behind the button shown while detection is on
stopAllCameras ==
  /\ globalDetectionActive
  /\ globalDetectionActive' = FALSE
  /\ \E cams \in
        {[id \in Lanes |->
            [cameras[id] EXCEPT !.isActive = FALSE,
                                !.hasEmergencyVehicle = FALSE]]} :
        /\ cameras' = cams
        /\ signalColors' = renderSignals(cams)
  /\ UNCHANGED notGridVars

\* The component as mounted, and its first render.
Mounted ==
  /\ cameras = InitialCameras
  /\ globalDetectionActive = FALSE
  /\ signalColors = renderSignals(InitialCameras)

\* ================================= web application: useWebSocketDetection
\* The hook exists twice: in hooks/useWebSocketDetection.ts ("hook", the one
\* WebcamCapture imports) and, rewritten, at the end of
\* ArduinoController.tsx ("copy").
HookVariants == {"hook", "copy"}

\* maxReconnectAttempts
maxReconnectAttempts(variant) == IF variant = "hook" THEN 10 ELSE 5

\* The WebSocket objects and the timers that exist at one time.
MaxSockets == 2

MaxTimers == 2

SocketIds == 1..MaxSockets

TimerIds == 1..MaxTimers

\* A WebSocket the hook created: its readyState, the value of enabled its
\* handlers closed over, and whether its handlers are still attached. NONE
\* stands for no object.
NoSocket == [readyState |-> "NONE", enabled |-> FALSE, handlers |-> FALSE]

\* A pending setTimeout: the reconnect timer of onclose or the timer of
\* forceReconnect, and the value of enabled its callback closed over.
NoTimer == [kind |-> "none", enabled |-> FALSE]

Live(sockets) ==
  {s \in SocketIds : sockets[s].readyState \in {"CONNECTING", "OPEN"}}

FreeSockets(h) == {s \in SocketIds : h.sockets[s].readyState = "NONE"}

FreeTimers(h) == {t \in TimerIds : h.timers[t].kind = "none"}

\* A closed WebSocket that wsRef does not hold is garbage.
settle(h) ==
  [h EXCEPT !.sockets =
     [s \in SocketIds |->
        IF h.sockets[s].readyState = "CLOSED" /\ h.wsRef # s
        THEN NoSocket ELSE h.sockets[s]]]

\* setTimeout(callback, delay)
setTimeout(h, kind, enabled) ==
  [h EXCEPT !.timers[Min(FreeTimers(h))] =
     [kind |-> kind, enabled |-> enabled]]

\* clearTimeout(reconnectTimeoutRef.current); reconnectTimeoutRef.current =
\* null (a timer that has fired is held as -1)
clearReconnectTimeout(h) ==
  [h EXCEPT !.timers = IF h.reconnectTimeoutRef > 0
                       THEN [@ EXCEPT ![h.reconnectTimeoutRef] = NoTimer]
                       ELSE @,
            !.reconnectTimeoutRef = 0]

\* ws.close(): a connecting or open WebSocket is closing from now on
close(socket) ==
  IF socket.readyState \in {"CONNECTING", "OPEN"}
  THEN [socket EXCEPT !.readyState = "CLOSING"]
  ELSE socket

\* new WebSocket(wsUrl) with the handlers of a connect() that closed over
\* enabled, and wsRef.current = ws
newWebSocket(h, enabled) ==
  [h EXCEPT !.sockets[Min(FreeSockets(h))] =
              [readyState |-> "CONNECTING", enabled |-> enabled,
               handlers |-> TRUE],
            !.wsRef = Min(FreeSockets(h))]

\* ---- hooks/useWebSocketDetection.ts
\* disconnect(), lines 139-155. setRecentDetections([]) stores a new array:
\* the component renders again with a new connect (its dependencies, line
\* 137, hold recentDetections), and the effect of lines 192-204 is due again.
disconnect(h) ==
  LET c == clearReconnectTimeout(h)
  IN [c EXCEPT !.sockets = IF c.wsRef # 0
                           THEN [@ EXCEPT ![c.wsRef] = close(@)]
                           ELSE @,
               !.wsRef = 0,
               !.isConnected = FALSE,
               !.recentDetections = <<>>,
               !.renderPending = c.mounted,
               !.reconnectAttemptsRef = 0]

\* connect() without the test of lines 41-45
connectUnguarded(h, enabled) == newWebSocket(h, enabled)

\* connect() of a render in which enabled had the value given, lines 39-137
connect(h, enabled) ==
  IF h.wsRef # 0
       /\ h.sockets[h.wsRef].readyState \in {"CONNECTING", "OPEN"}
  THEN h
  ELSE newWebSocket(h, enabled)

\* ws.onopen, lines 54-64
onopen(h) ==
  [h EXCEPT !.isConnected = TRUE,
            !.connectionError = "",
            !.reconnectAttemptsRef = 0]

\* ws.onclose of a WebSocket whose handlers closed over enabled, lines
\* 108-124
onclose(h, enabled) ==
  LET c == [h EXCEPT !.isConnected = FALSE]
  IN IF enabled /\ c.reconnectAttemptsRef < maxReconnectAttempts("hook")
     THEN [setTimeout(c, "reconnect", enabled) EXCEPT
             !.reconnectTimeoutRef = Min(FreeTimers(c))]
     ELSE IF c.reconnectAttemptsRef >= maxReconnectAttempts("hook")
     THEN [c EXCEPT !.connectionError =
             "Max reconnection attempts reached. Please refresh the page."]
     ELSE c

\* ws.onerror, lines 126-130
onerror(h) ==
  [h EXCEPT !.connectionError =
              "WebSocket connection failed - make sure backend is running",
            !.isConnected = FALSE]

\* ws.onmessage, lines 66-106, for the type of message given (a
\* detection_result is one with success and predictions)
onmessage(h, type) ==
  IF type = "detection_result"
  THEN [h EXCEPT !.recentDetections = <<"car">>,
                 !.renderPending = h.mounted]
  ELSE IF type = "error"
  THEN [h EXCEPT !.connectionError = "server error"]
  ELSE h

\* The effect of lines 192-204 when its dependencies have changed: the
\* cleanup of the render before, then the effect of this one.
useEffect(h) ==
  LET c == disconnect(h)
  IN IF c.enabled THEN connect(c, c.enabled) ELSE disconnect(c)

\* forceReconnect(), lines 181-190
forceReconnect(h) ==
  setTimeout([disconnect(h) EXCEPT !.reconnectAttemptsRef = 0],
             "force", h.enabled)

\* ---- the copy in ArduinoController.tsx
\* cleanup(), lines 379-400
cleanup(h) ==
  LET c == clearReconnectTimeout(h)
  IN [c EXCEPT !.sockets = IF c.wsRef # 0
                           THEN [@ EXCEPT ![c.wsRef] =
                                   [close(@) EXCEPT !.handlers = FALSE]]
                           ELSE @,
               !.wsRef = 0,
               !.isConnected = FALSE,
               !.recentDetections = <<>>,
               !.isConnectingRef = FALSE]

\* connect(), lines 402-481
connectCopy(h, enabled) ==
  IF h.isConnectingRef THEN h
  ELSE IF h.wsRef # 0 /\ h.sockets[h.wsRef].readyState = "OPEN" THEN h
  ELSE [newWebSocket(settle(cleanup(h)), enabled) EXCEPT
          !.isConnectingRef = TRUE]

\* ws.onopen, lines 424-430
onopenCopy(h) ==
  [h EXCEPT !.isConnected = TRUE,
            !.connectionError = "",
            !.reconnectAttemptsRef = 0,
            !.isConnectingRef = FALSE]

\* ws.onclose, lines 451-467
oncloseCopy(h, enabled) ==
  LET c == [h EXCEPT !.isConnected = FALSE, !.isConnectingRef = FALSE]
  IN IF enabled /\ c.reconnectAttemptsRef < maxReconnectAttempts("copy")
     THEN [setTimeout(c, "reconnect", enabled) EXCEPT
             !.reconnectTimeoutRef = Min(FreeTimers(c))]
     ELSE IF c.reconnectAttemptsRef >= maxReconnectAttempts("copy")
     THEN [c EXCEPT !.connectionError =
             "Connection failed. Click reconnect to try again."]
     ELSE c

\* ws.onerror, lines 469-474
onerrorCopy(h) ==
  [h EXCEPT !.connectionError = "WebSocket connection failed",
            !.isConnected = FALSE,
            !.isConnectingRef = FALSE]

\* ws.onmessage, lines 432-449
onmessageCopy(h, type) ==
  IF type = "detection_result"
  THEN [h EXCEPT !.recentDetections = <<"car">>]
  ELSE h

\* The effect of lines 512-520 when its dependencies have changed.
useEffectCopy(h) ==
  LET c == cleanup(h)
  IN IF c.enabled THEN connectCopy(c, c.enabled) ELSE cleanup(c)

\* forceReconnect(), lines 503-510
forceReconnectCopy(h) ==
  LET c == cleanup([h EXCEPT !.reconnectAttemptsRef = 0])
  IN IF h.enabled THEN setTimeout(c, "force", h.enabled) ELSE c

\* ---- what happens to an instance
\* A step of the hook ends in the state h: the renders that a handler's
\* state updates cause are part of h, event names what happened.
HookStep(h, event) ==
  /\ hook' = [settle(h) EXCEPT !.event = event]
  /\ UNCHANGED notHookVars

\* Room for the WebSocket a step may create.
HasRoom == FreeSockets(hook) # {}

\* The effect, in the variant of the instance
RunEffect(h) == IF h.variant = "hook" THEN useEffect(h) ELSE useEffectCopy(h)

\* The parent renders with another value of enabled: the effect runs again.
SetEnabled(enabled) ==
  /\ hook.mounted
  /\ hook.enabled # enabled
  /\ HasRoom
  /\ HookStep(RunEffect([hook EXCEPT !.enabled = enabled,
                                     !.reconnectsSinceOpen = 0]),
              "enabled")

\* The parent renders with a new onDetectionUpdate (CameraGrid passes an
\* inline function, lines 325 and 368): connect is a new function, the
\* effect runs again.
ParentRenders ==
  /\ hook.mounted
  /\ HasRoom
  /\ HookStep(RunEffect(hook), "props")

\* The render that a new recentDetections caused is followed by the effect.
Render ==
  /\ hook.mounted
  /\ hook.renderPending
  /\ HasRoom
  /\ HookStep(RunEffect(hook), "render")

\* The component unmounts: the cleanup of the effect runs.
Unmount ==
  /\ hook.mounted
  /\ \E h \in {[hook EXCEPT !.mounted = FALSE, !.renderPending = FALSE]} :
       HookStep(IF h.variant = "hook" THEN disconnect(h) ELSE cleanup(h),
                "unmount")

\* forceReconnect() is called.
ForceReconnect ==
  /\ hook.mounted
  /\ FreeTimers(hook) # {}
  /\ HookStep([(IF hook.variant = "hook"
                THEN forceReconnect(hook) ELSE forceReconnectCopy(hook))
                 EXCEPT !.reconnectsSinceOpen = 0],
              "forceReconnect")

\* The connection of WebSocket s is established.
SocketOpens(s) ==
  /\ hook.sockets[s].readyState = "CONNECTING"
  /\ \E h \in {[hook EXCEPT !.sockets[s].readyState = "OPEN"]} :
       HookStep(IF ~h.sockets[s].handlers THEN h
                ELSE [(IF h.variant = "hook" THEN onopen(h)
                       ELSE onopenCopy(h))
                        EXCEPT !.reconnectsSinceOpen = 0],
                "open")

\* The connection of WebSocket s fails: error, then close.
SocketFails(s) ==
  /\ hook.sockets[s].readyState = "CONNECTING"
  /\ FreeTimers(hook) # {}
  /\ \E h \in {[hook EXCEPT !.sockets[s].readyState = "CLOSED"]} :
       HookStep(IF ~h.sockets[s].handlers THEN h
                ELSE IF h.variant = "hook"
                THEN onclose(onerror(h), h.sockets[s].enabled)
                ELSE oncloseCopy(onerrorCopy(h), h.sockets[s].enabled),
                "fail")

\* WebSocket s is closed: by the server, or because the closing that
\* close() began is done.
SocketCloses(s) ==
  /\ hook.sockets[s].readyState \in {"OPEN", "CLOSING"}
  /\ FreeTimers(hook) # {}
  /\ \E h \in {[hook EXCEPT !.sockets[s].readyState = "CLOSED"]} :
       HookStep(IF ~h.sockets[s].handlers THEN h
                ELSE IF h.variant = "hook"
                THEN onclose(h, h.sockets[s].enabled)
                ELSE oncloseCopy(h, h.sockets[s].enabled),
                "close")

MessageTypes == {"detection_result", "pong", "error"}

\* A message arrives on WebSocket s.
SocketMessage(s, type) ==
  /\ hook.sockets[s].readyState = "OPEN"
  /\ hook.sockets[s].handlers
  /\ HasRoom
  /\ \E h \in {IF hook.variant = "hook" THEN onmessage(hook, type)
               ELSE onmessageCopy(hook, type)} :
       HookStep(IF h.variant = "hook" /\ type = "detection_result"
                     /\ h.mounted
                THEN useEffect(h) ELSE h,
                type)

\* The reconnect timer t fires: lines 117-120 (copy: 460-463). An attempt
\* is a firing whose connect() creates a WebSocket.
ReconnectTimerFires(t) ==
  /\ hook.timers[t].kind = "reconnect"
  /\ HasRoom
  /\ hook.reconnectsSinceOpen <= maxReconnectAttempts(hook.variant)
  /\ \E h \in {[hook EXCEPT
                  !.timers[t] = NoTimer,
                  !.reconnectTimeoutRef = IF @ = t THEN -1 ELSE @,
                  !.reconnectAttemptsRef = @ + 1]} :
       \E g \in {IF h.variant = "hook"
                 THEN connect(h, hook.timers[t].enabled)
                 ELSE connectCopy(h, hook.timers[t].enabled)} :
         HookStep([g EXCEPT !.reconnectsSinceOpen =
                     IF Live(g.sockets) # Live(h.sockets) THEN @ + 1 ELSE @],
                  "reconnect")

\* The timer t of forceReconnect fires: lines 185-189 (copy: 508).
ForceTimerFires(t) ==
  /\ hook.timers[t].kind = "force"
  /\ HasRoom
  /\ \E h \in {[hook EXCEPT !.timers[t] = NoTimer]} :
       HookStep(IF h.variant = "hook"
                THEN IF hook.timers[t].enabled
                     THEN connect(h, hook.timers[t].enabled) ELSE h
                ELSE connectCopy(h, hook.timers[t].enabled),
                "forceTimer")

\* The instance after its first render with enabled false and the effect
\* of that render.
HookMounted(variant) ==
  hook =
    LET h == [ variant |-> variant,
               mounted |-> TRUE,
               enabled |-> FALSE,
               sockets |-> [s \in SocketIds |-> NoSocket],
               wsRef |-> 0,
               timers |-> [t \in TimerIds |-> NoTimer],
               reconnectTimeoutRef |-> 0,
               reconnectAttemptsRef |-> 0,
               isConnectingRef |-> FALSE,
               isConnected |-> FALSE,
               connectionError |-> "",
               recentDetections |-> <<>>,
               renderPending |-> FALSE,
               reconnectsSinceOpen |-> 0,
               event |-> "mount" ]
    IN IF variant = "hook" THEN disconnect(h) ELSE cleanup(h)

\* ================================== web application: WebcamCapture health
\* WebcamCapture.tsx holds the component twice: the one that detects over
\* the WebSocket (1, lines 29-540) and the one that posts frames (2, lines
\* 571-1164). Both keep the same state about the backend's /health.
WebcamCopies == {1, 2}

\* The health checks that may be awaiting their response at one time.
MaxChecks == 2

\* The condition of the auto-reconnection effect, line 92 (619)
retryDue(w) ==
  ~w.apiConnected /\ w.connectionAttempts < 10 /\ ~w.isCheckingApi

\* The auto-reconnection effect without the test of connectionAttempts
autoReconnectUnbounded(old, w) ==
  IF <<w.apiConnected, w.connectionAttempts, w.isCheckingApi>>
       = <<old.apiConnected, old.connectionAttempts, old.isCheckingApi>>
  THEN w
  ELSE [w EXCEPT !.reconnectTimeout = ~w.apiConnected /\ ~w.isCheckingApi,
                 !.timeoutStreaming =
                   ~w.apiConnected /\ ~w.isCheckingApi /\ w.isStreaming]

\* The auto-reconnection effect of lines 89-107 (616-634) after a render
\* that changed old into w: when a dependency has changed, the cleanup
\* clears the timer and the effect schedules one if the condition holds.
\* The timer's checkApiConnection is the one of that render.
autoReconnect(old, w) ==
  IF <<w.apiConnected, w.connectionAttempts, w.isCheckingApi>>
       = <<old.apiConnected, old.connectionAttempts, old.isCheckingApi>>
  THEN w
  ELSE [w EXCEPT !.reconnectTimeout = retryDue(w),
                 !.timeoutStreaming = retryDue(w) /\ w.isStreaming]

\* checkApiConnection() of a render in which isStreaming had the value
\* given, up to its await: lines 146-160 (673-687)
checkApiConnection(w, streaming) ==
  [w EXCEPT !.isCheckingApi = TRUE,
            !.checks = Append(@, streaming)]

\* checkApiConnection() after a response that is ok: lines 164-170, 193
checkSucceeded(w) ==
  [w EXCEPT !.apiConnected = TRUE,
            !.connectionAttempts = 0,
            !.isReconnecting = FALSE,
            !.isCheckingApi = FALSE,
            !.checks = Tail(@),
            !.failedChecks = 0]

\* checkApiConnection() after a failure, a timeout or a status that is not
\* ok: lines 174-194
checkFailed(w) ==
  [w EXCEPT !.apiConnected = FALSE,
            !.connectionAttempts = @ + 1,
            !.isReconnecting = @ \/ w.checks[1],
            !.isCheckingApi = FALSE,
            !.checks = Tail(@),
            !.failedChecks = @ + 1]

\* forceReconnect(), lines 197-202 (724-729)
forceReconnectApi(w) ==
  checkApiConnection([w EXCEPT !.connectionAttempts = 0,
                               !.isReconnecting = TRUE,
                               !.failedChecks = 0],
                     w.isStreaming)

\* A step of the component ends in the state w, rendered, its effect run.
WebcamStep(w, event) ==
  /\ webcam' = [autoReconnect(webcam, w) EXCEPT !.event = event]
  /\ UNCHANGED notWebcamVars

\* The timer of the auto-reconnection effect fires.
RetryTimerFires ==
  /\ webcam.reconnectTimeout
  /\ Len(webcam.checks) < MaxChecks
  /\ WebcamStep(checkApiConnection(
                  [webcam EXCEPT !.reconnectTimeout = FALSE,
                                 !.timeoutStreaming = FALSE],
                  webcam.timeoutStreaming),
                "retry")

\* The oldest health check gets its response.
CheckSucceeds ==
  /\ webcam.checks # <<>>
  /\ WebcamStep(checkSucceeded(webcam), "checkSucceeded")

\* The oldest health check fails (the counter of failures is capped).
CheckFails ==
  /\ webcam.checks # <<>>
  /\ webcam.failedChecks <= 10
  /\ WebcamStep(checkFailed(webcam), "checkFailed")

\* The Retry button, shown by the second copy while apiConnected is false
\* and enabled while isCheckingApi is false (lines 1002-1012).
ClickRetry ==
  /\ webcam.copy = 2
  /\ ~webcam.apiConnected /\ ~webcam.isCheckingApi
  /\ Len(webcam.checks) < MaxChecks
  /\ WebcamStep(forceReconnectApi(webcam), "forceReconnect")

\* startWebcam(), lines 220-257; the second copy returns while apiConnected
\* is false (lines 731-735).
StartWebcam ==
  /\ ~webcam.isStreaming
  /\ webcam.copy = 2 => webcam.apiConnected
  /\ WebcamStep([webcam EXCEPT !.isStreaming = TRUE], "startWebcam")

\* stopWebcam(), lines 259-272 (773-787)
StopWebcam ==
  /\ webcam.isStreaming
  /\ WebcamStep([webcam EXCEPT !.isStreaming = FALSE], "stopWebcam")

\* performDetection() of the second copy ends in a network error, lines
\* 900-903 (the interval calls the performDetection of the render that
\* started the webcam, in which apiConnected was true and
\* connectionAttempts 0).
DetectionFails ==
  /\ webcam.copy = 2
  /\ webcam.isStreaming
  /\ WebcamStep([webcam EXCEPT !.apiConnected = FALSE], "detectionFailed")

\* The component after its first render and the effects of that render:
\* the auto-reconnection effect schedules a timer, the effect of lines
\* 365-368 (987-990) calls checkApiConnection(), and the render that follows
\* clears the timer.
WebcamMounted(copy) ==
  webcam =
    LET w == [ copy |-> copy,
               apiConnected |-> FALSE,
               isCheckingApi |-> FALSE,
               connectionAttempts |-> 0,
               isReconnecting |-> FALSE,
               isStreaming |-> FALSE,
               reconnectTimeout |-> TRUE,
               timeoutStreaming |-> FALSE,
               checks |-> <<>>,
               failedChecks |-> 0,
               event |-> "mount" ]
    IN autoReconnect(w, checkApiConnection(w, FALSE))

\* ================================ web application: ArduinoController panel
\* The panel exists twice: components/ArduinoController.tsx ("component")
\* and the later version kept in unnamed/part_001 ("part"), which waits for
\* the backend's /health before it polls.
PanelVariants == {"component", "part"}

\* The requests of the panel: each handler is a fetch and what follows its
\* response.
RequestKinds == {"health", "status", "connect", "disconnect", "start", "stop"}

\* checkArduinoStatus() up to its await, lines 30-35 (part_001: 69-76);
\* only the component shows its spinner for a poll.
checkArduinoStatus(p) ==
  [p EXCEPT !.isLoading = IF p.variant = "component" THEN TRUE ELSE @,
            !.requests = @ \cup {"status"}]

\* checkArduinoStatus() after a response that is ok, lines 39-43 and 50
\* (part_001: 80-89)
statusReceived(p, connected) ==
  [p EXCEPT !.isConnected = connected,
            !.isLoading = IF p.variant = "component" THEN FALSE ELSE @,
            !.requests = @ \ {"status"}]

\* checkArduinoStatus() after a failure, lines 44-50 (part_001: 90-97)
statusFailed(p) ==
  [p EXCEPT !.isConnected = FALSE,
            !.isLoading = IF p.variant = "component" THEN FALSE ELSE @,
            !.requests = @ \ {"status"}]

\* checkBackendHealth() of part_001 after its response, lines 51-66: ready,
\* and the effect of lines 34-40 polls at once; or not ready, and the check
\* is repeated five seconds later.
healthReceived(p, ok) ==
  IF ok
  THEN checkArduinoStatus([p EXCEPT !.backendReady = TRUE,
                                    !.isLoading = FALSE,
                                    !.requests = @ \ {"health"}])
  ELSE [p EXCEPT !.backendReady = FALSE, !.isLoading = FALSE]

\* connectArduino() after its response, lines 70-82 (part_001: 123-143,
\* which asks for the status a second later)
connectArduino(p, ok) ==
  LET c == [p EXCEPT !.isConnected = IF ok THEN TRUE ELSE @,
                     !.isConnecting = FALSE,
                     !.requests = @ \ {"connect"}]
  IN IF ok /\ p.variant = "part" THEN checkArduinoStatus(c) ELSE c

\* disconnectArduino() after its response, lines 92-103 (part_001: 154-165)
disconnectArduino(p, ok) ==
  [p EXCEPT !.isConnected = IF ok THEN FALSE ELSE @,
            !.systemActive = IF ok THEN FALSE ELSE @,
            !.requests = @ \ {"disconnect"}]

\* startTrafficSystem() after its response, lines 113-122 (part_001:
\* 176-185)
startTrafficSystem(p, ok) ==
  [p EXCEPT !.systemActive = IF ok THEN TRUE ELSE @,
            !.requests = @ \ {"start"}]

\* stopTrafficSystem() after its response, lines 132-141 (part_001:
\* 196-205)
stopTrafficSystem(p, ok) ==
  [p EXCEPT !.systemActive = IF ok THEN FALSE ELSE @,
            !.requests = @ \ {"stop"}]

\* What the card shows, lines 184-188 (part_001: 261-268): the spinner, the
\* connection form or the controls.
PanelView(p) ==
  IF p.isLoading \/ ~p.backendReady THEN "loading"
  ELSE IF ~p.isConnected THEN "connect"
  ELSE "controls"

PanelStep(p, event) ==
  /\ panel' = [p EXCEPT !.event = event]
  /\ UNCHANGED notPanelVars

\* The interval of lines 24-28 (part_001: 34-40, once the backend is ready)
\* calls checkArduinoStatus().
PollStatus ==
  /\ panel.backendReady
  /\ "status" \notin panel.requests
  /\ PanelStep(checkArduinoStatus(panel), "poll")

StatusResponds(connected) ==
  /\ "status" \in panel.requests
  /\ PanelStep(statusReceived(panel, connected), "status")

StatusFails ==
  /\ "status" \in panel.requests
  /\ PanelStep(statusFailed(panel), "statusFailed")

HealthResponds(ok) ==
  /\ "health" \in panel.requests
  /\ PanelStep(healthReceived(panel, ok), "health")

\* The Connect button, lines 214-216 (part_001: 294-296)
ClickConnect ==
  /\ PanelView(panel) = "connect"
  /\ ~panel.isConnecting
  /\ PanelStep([panel EXCEPT !.isConnecting = TRUE,
                             !.requests = @ \cup {"connect"}],
               "clickConnect")

ConnectResponds(ok) ==
  /\ "connect" \in panel.requests
  /\ PanelStep(connectArduino(panel, ok), "connect")

\* The Disconnect button, line 268
ClickDisconnect ==
  /\ PanelView(panel) = "controls"
  /\ "disconnect" \notin panel.requests
  /\ PanelStep([panel EXCEPT !.requests = @ \cup {"disconnect"}],
               "clickDisconnect")

DisconnectResponds(ok) ==
  /\ "disconnect" \in panel.requests
  /\ PanelStep(disconnectArduino(panel, ok), "disconnect")

\* The Start button, shown while systemActive is false, lines 249-251
ClickStart ==
  /\ PanelView(panel) = "controls"
  /\ ~panel.systemActive
  /\ "start" \notin panel.requests
  /\ PanelStep([panel EXCEPT !.requests = @ \cup {"start"}], "clickStart")

StartResponds(ok) ==
  /\ "start" \in panel.requests
  /\ PanelStep(startTrafficSystem(panel, ok), "start")

\* The Stop button, shown while systemActive is true, line 259
ClickStop ==
  /\ PanelView(panel) = "controls"
  /\ panel.systemActive
  /\ "stop" \notin panel.requests
  /\ PanelStep([panel EXCEPT !.requests = @ \cup {"stop"}], "clickStop")

StopResponds(ok) ==
  /\ "stop" \in panel.requests
  /\ PanelStep(stopTrafficSystem(panel, ok), "stop")

\* The panel after its first render and the effects of that render: the
\* component has called checkArduinoStatus(), part_001 waits for its first
\* health check.
PanelMounted(variant) ==
  panel =
    LET p == [ variant |-> variant,
               isConnected |-> FALSE,
               isConnecting |-> FALSE,
               systemActive |-> FALSE,
               isLoading |-> TRUE,
               backendReady |-> variant = "component",
               requests |-> {},
               event |-> "mount" ]
    IN IF variant = "component" THEN checkArduinoStatus(p)
       ELSE [p EXCEPT !.requests = {"health"}]

\* The state after setup() (running = FALSE), or the state in which START
\* has just been handled with the counts and flags given stored before it.
Boot(counts, flags, running) ==
  /\ sketch \in {1, 2}
  /\ millis = 0
  /\ serialBuf = <<>>
  /\ serialIn = IF running THEN <<S_START>> ELSE <<>>
  /\ serialOut =
       IF ~running
       THEN IF sketch = 1
            THEN <<Msg(<<"Arduino Initialized">>, <<FALSE, 0>>)>>
            ELSE <<Msg(<<"Traffic Controller Ready">>, <<>>)>>
       ELSE IF sketch = 1 THEN <<Msg(<<"Traffic system started">>, <<>>)>>
       ELSE <<Msg(<<"Traffic system STARTED">>, <<>>)>>
  /\ leds = allRedLights
  /\ prevLeds = allRedLights
  /\ greenSince = -1
  /\ pc = IF running THEN "tick" ELSE "loop"
  /\ vehicleCounts = counts
  /\ emergencyStatus = IF sketch = 1 THEN flags ELSE [i \in Roads |-> FALSE]
  /\ trafficSystemRunning = (sketch = 1 /\ running)
  /\ currentRoad = -1
  /\ greenEndTime = 0
  /\ greenActive = FALSE
  /\ now = 0
  /\ emergencyOverride = IF sketch = 2 THEN flags ELSE [i \in Roads |-> FALSE]
  /\ systemActive = (sketch = 2 /\ running)
  /\ currentGreenRoad = 1
  /\ lastSwitchTime = 0
  /\ currentTime = 0
  /\ road = 0

Init ==
  /\ Boot([i \in Roads |-> 0], [i \in Roads |-> FALSE], FALSE)
  /\ Mounted
  /\ HookMounted("hook")
  /\ WebcamMounted(1)
  /\ PanelMounted("component")

\* The controller with an operator's console.
Next ==
  \/ \E line \in CmdLines : Receive(line)
  \/ \E arrived \in Arrivals : HandleSerial1(arrived)
  \/ RunTraffic1
  \/ StartGreenLightDwell
  \/ EndGreenLightDwell
  \/ \E arrived \in Arrivals : HandleSerial2(arrived)
  \/ RunTraffic2
  \/ SwitchYellowDwell
  \/ SwitchAllRedDwell
  \/ Tick

Spec == Init /\ [][Next]_vars

\* The controller with a host that sends lines it must reject.
NextInput ==
  \/ \E line \in InputLines : Receive(line)
  \/ \E arrived \in InputArrivals : HandleSerial1(arrived)
  \/ RunTraffic1
  \/ StartGreenLightDwell
  \/ EndGreenLightDwell
  \/ \E arrived \in InputArrivals : HandleSerial2(arrived)
  \/ RunTraffic2
  \/ SwitchYellowDwell
  \/ SwitchAllRedDwell
  \/ Tick

SpecInput == Init /\ [][NextInput]_vars

\* The controller with a detection feed.
NextFeed ==
  \/ \E line \in FeedLines : Receive(line)
  \/ \E arrived \in FeedArrivals : HandleSerial1(arrived)
  \/ RunTraffic1
  \/ StartGreenLightDwell
  \/ EndGreenLightDwell
  \/ \E arrived \in FeedArrivals : HandleSerial2(arrived)
  \/ RunTraffic2
  \/ SwitchYellowDwell
  \/ SwitchAllRedDwell
  \/ Tick

SpecFeed == Init /\ [][NextFeed]_vars

\* The counts the arbitration is examined with: every combination of three
\* values, and vectors with the values an int can hold at its ends.
Counts(a, b, c, d) == [i \in Roads |-> <<a, b, c, d>>[i + 1]]

ArbCounts ==
  [Roads -> {0, 5, 9}]
    \cup { Counts(3, 9, 1, 0), Counts(100, 0, 0, 0), Counts(0, 34, 34, 0),
           Counts(0, 0, 32767, 5), Counts(-7, 0, 0, 0),
           Counts(0, -32768, 0, 1) }

\* START has just been handled, with any of these counts and any flags
\* stored by earlier UPDATEs.
InitArb ==
  /\ \E counts \in ArbCounts, flags \in [Roads -> BOOLEAN] :
       Boot(counts, flags, TRUE)
  /\ Mounted
  /\ HookMounted("hook")
  /\ WebcamMounted(1)
  /\ PanelMounted("component")

\* The controller left alone after START.
NextArb ==
  \/ RunTraffic1
  \/ StartGreenLightDwell
  \/ EndGreenLightDwell
  \/ RunTraffic2
  \/ SwitchYellowDwell
  \/ SwitchAllRedDwell
  \/ Tick

SpecArb == InitArb /\ [][NextArb]_vars

\* The processor runs the sketch, and time passes.
ProgramStep ==
  \/ RunTraffic1
  \/ StartGreenLightDwell
  \/ EndGreenLightDwell
  \/ RunTraffic2
  \/ SwitchYellowDwell
  \/ SwitchAllRedDwell

SpecFair == Spec /\ WF_vars(ProgramStep) /\ SF_vars(Tick)

\* The web application's camera grid, whatever the board does.
NextGrid ==
  \/ \E cameraId \in Lanes, predictions \in Predictions :
       handleDetectionUpdate(cameraId, predictions)
  \/ \E cameraId \in Lanes, isActive \in BOOLEAN :
       handleStatusChange(cameraId, isActive)
  \/ startAllCameras
  \/ stopAllCameras

SpecGrid == Init /\ [][NextGrid]_vars

\* An instance of the hook, in either variant, with its parent, its
\* sockets and its timers, beside the first sketch left alone.
InitHook ==
  /\ Boot([i \in Roads |-> 0], [i \in Roads |-> FALSE], FALSE)
  /\ sketch = 1
  /\ Mounted
  /\ \E variant \in HookVariants : HookMounted(variant)
  /\ WebcamMounted(1)
  /\ PanelMounted("component")

NextHook ==
  \/ \E enabled \in BOOLEAN : SetEnabled(enabled)
  \/ ParentRenders
  \/ Render
  \/ Unmount
  \/ ForceReconnect
  \/ \E s \in SocketIds : SocketOpens(s)
  \/ \E s \in SocketIds : SocketFails(s)
  \/ \E s \in SocketIds : SocketCloses(s)
  \/ \E s \in SocketIds, type \in MessageTypes : SocketMessage(s, type)
  \/ \E t \in TimerIds : ReconnectTimerFires(t)
  \/ \E t \in TimerIds : ForceTimerFires(t)

SpecHook == InitHook /\ [][NextHook]_vars

\* WebcamCapture, in either copy, with the backend answering its health
\* checks or not, beside the first sketch left alone.
InitWebcam ==
  /\ Boot([i \in Roads |-> 0], [i \in Roads |-> FALSE], FALSE)
  /\ sketch = 1
  /\ Mounted
  /\ HookMounted("hook")
  /\ \E copy \in WebcamCopies : WebcamMounted(copy)
  /\ PanelMounted("component")

NextWebcam ==
  \/ RetryTimerFires
  \/ CheckSucceeds
  \/ CheckFails
  \/ ClickRetry
  \/ StartWebcam
  \/ StopWebcam
  \/ DetectionFails

SpecWebcam == InitWebcam /\ [][NextWebcam]_vars

\* The panel, in either variant, with its user and the backend.
InitPanel ==
  /\ Boot([i \in Roads |-> 0], [i \in Roads |-> FALSE], FALSE)
  /\ sketch = 1
  /\ Mounted
  /\ HookMounted("hook")
  /\ WebcamMounted(1)
  /\ \E variant \in PanelVariants : PanelMounted(variant)

NextPanel ==
  \/ PollStatus
  \/ \E connected \in BOOLEAN : StatusResponds(connected)
  \/ StatusFails
  \/ \E ok \in BOOLEAN : HealthResponds(ok)
  \/ ClickConnect
  \/ \E ok \in BOOLEAN : ConnectResponds(ok)
  \/ ClickDisconnect
  \/ \E ok \in BOOLEAN : DisconnectResponds(ok)
  \/ ClickStart
  \/ \E ok \in BOOLEAN : StartResponds(ok)
  \/ ClickStop
  \/ \E ok \in BOOLEAN : StopResponds(ok)

SpecPanel == InitPanel /\ [][NextPanel]_vars

\* ================================================================= claims
\* The emergency flags and the running flag of the sketch on the board.
EmergencyFlags == IF sketch = 1 THEN emergencyStatus ELSE emergencyOverride

Running == IF sketch = 1 THEN trafficSystemRunning ELSE systemActive

Flagged(flags) == {i \in Roads : flags[i]}

\* --------------------------------------------------------------------- C1
\* C1 (mutual exclusion): in every reachable state of either sketch, at most
\* one road has its green or yellow lamp lit, and every other road shows
\* red only.
MutualExclusion ==
  \A i, j \in Roads :
    (i # j /\ (leds[i].green \/ leds[i].yellow))
      => leds[j] = RedOnly

\* --------------------------------------------------------------------- C2
\* C2 (emergency precedence): whenever a road has its emergency flag set,
\* the arbitrator of each sketch selects the lowest-numbered flagged road,
\* whatever the counts; and the road a green phase or a switch is started
\* for is that road.
EmergencyPrecedence ==
  Flagged(EmergencyFlags) # {} =>
    /\ sketch = 1 =>
         /\ getHighestPriorityRoad(vehicleCounts, emergencyStatus)
              = Min(Flagged(emergencyStatus))
         /\ pc = "startGreenLight" =>
              currentRoad = Min(Flagged(emergencyStatus))
    /\ sketch = 2 =>
         /\ getEmergencyRoad(emergencyOverride, 0)
              = Min(Flagged(emergencyOverride))
         /\ pc = "switchYellow" =>
              road = Min(Flagged(emergencyOverride)) + 1

\* Counts [3,9,1,0] with the emergency on road 3 only: the green phase is
\* started for road 3.
EmergencyPrecedenceWitness ==
  /\ sketch = 1
  /\ vehicleCounts = Counts(3, 9, 1, 0)
  /\ Flagged(emergencyStatus) = {2}
  /\ pc = "startGreenLight"
  /\ currentRoad = 2
  /\ leds[2].yellow

\* --------------------------------------------------------------------- C3
\* A road of the maximum count, the lowest-numbered of them.
HighestDemand(counts, r) ==
  /\ r \in Roads
  /\ \A j \in Roads : counts[j] <= counts[r]
  /\ \A j \in Roads : j < r => counts[j] < counts[r]

\* C3 (highest-demand priority): when no emergency flag is set and a road
\* has a positive count, the arbitrator of each sketch selects a road of
\* the maximum count, the lowest-numbered one among those tied for it; and
\* the road a green phase or a switch is started for is that road.
HighestDemandPriority ==
  (Flagged(EmergencyFlags) = {} /\ \E i \in Roads : vehicleCounts[i] > 0) =>
    /\ sketch = 1 =>
         /\ HighestDemand(vehicleCounts,
                          getHighestPriorityRoad(vehicleCounts,
                                                 emergencyStatus))
         /\ pc = "startGreenLight" =>
              HighestDemand(vehicleCounts, currentRoad)
    /\ sketch = 2 =>
         /\ HighestDemand(vehicleCounts,
                          getHighestTrafficRoad(vehicleCounts) - 1)
         /\ pc = "switchYellow" =>
              HighestDemand(vehicleCounts, road - 1)

\* Road 1 has 5 vehicles, roads 2 and 3 have 9: the green phase is started
\* for road 2.
HighestDemandWitness ==
  /\ sketch = 1
  /\ vehicleCounts = Counts(5, 9, 9, 0)
  /\ Flagged(emergencyStatus) = {}
  /\ pc = "startGreenLight"
  /\ currentRoad = 1
  /\ leds[1].yellow

\* --------------------------------------------------------------------- C4
\* C4 (bounded green): every green duration startGreenLight() computes is
\* at least MIN_GREEN_DELAY and at most MAX_GREEN_DELAY, for every count an
\* int can hold that an UPDATE stored.
BoundedGreen ==
  (sketch = 1 /\ pc = "startGreenLight") =>
    /\ greenEndTime - now >= MIN_GREEN_DELAY
    /\ greenEndTime - now <= MAX_GREEN_DELAY

\* A count of 100, for which BASE_GREEN_DELAY + 100 * VEHICLE_FACTOR does
\* not fit an int: the wrapped sum is negative and the duration is
\* MIN_GREEN_DELAY.
BoundedGreenWitness ==
  /\ sketch = 1
  /\ pc = "startGreenLight"
  /\ vehicleCounts[currentRoad] = 100
  /\ greenEndTime - now = MIN_GREEN_DELAY

\* --------------------------------------------------------------------- C5
\* C5 (minimum green): a switch away from the road whose green lamp is lit,
\* made because another road has its emergency flag set, happens only when
\* the lamp has been lit for MIN_GREEN_DELAY at least (sketch 2:
\* manageTrafficLights() calling switchToRoad()); in sketch 1 a green lamp
\* is turned off by loop() only at greenEndTime.
MinimumGreen ==
  [][ \A r \in Roads :
        (leds[r].green /\ ~leds'[r].green) =>
          /\ (sketch = 2 /\ pc' = "switchYellow"
                /\ Flagged(emergencyOverride) \ {r} # {})
               => millis - greenSince >= MIN_GREEN_DELAY
          /\ (sketch = 1 /\ pc' = "endGreenLight")
               => millis >= greenEndTime ]_vars

\* --------------------------------------------------------------------- C6
\* A delay() or a green phase in progress ends after MaxTime.
HorizonBlocked ==
  \/ pc \in {"startGreenLight", "endGreenLight"}
       /\ millis + YELLOW_DELAY > MaxTime
  \/ greenActive /\ greenEndTime > MaxTime

\* C6 (no starvation): in sketch 1, while the system runs and no emergency
\* flag is set, once an UPDATE has stored a count every road is eventually
\* given green, the roads whose count is zero included.
NoStarvation ==
  \A r \in Roads :
    (sketch = 1 /\ trafficSystemRunning /\ Flagged(emergencyStatus) = {}
       /\ \E i \in Roads : vehicleCounts[i] > 0)
      ~> \/ leds[r].green
         \/ ~trafficSystemRunning
         \/ Flagged(emergencyStatus) # {}
         \/ HorizonBlocked

\* --------------------------------------------------------------------- C7
\* The line is an UPDATE that sketch 1 stores for road r.
UpdatesRoad1(line, r) ==
  /\ startsWith(SerialLines1[line].inputBuffer, S_UPDATE)
  /\ SerialLines1[line].update.road = r

\* C7 (reset after service): in sketch 1, when endGreenLight() has ended a
\* road's green phase the road's count is 0 and its flag is false; and a
\* count of 0 with a false flag stays so in every step that reads no UPDATE
\* for the road.
ResetAfterService ==
  [][ sketch = 1 =>
        \A r \in Roads :
          /\ (pc = "endGreenLight" /\ pc' # "endGreenLight"
                /\ currentRoad = r)
               => (vehicleCounts'[r] = 0 /\ ~emergencyStatus'[r])
          /\ (vehicleCounts[r] = 0 /\ ~emergencyStatus[r]
                /\ \A k \in DOMAIN serialIn' :
                     ~UpdatesRoad1(serialIn'[k], r))
               => (vehicleCounts'[r] = 0 /\ ~emergencyStatus'[r]) ]_vars

\* Road 2 was served with 9 vehicles from time 0: its exit yellow has just
\* ended and its count is 0.
ResetAfterServiceWitness ==
  /\ sketch = 1
  /\ pc = "loop"
  /\ prevLeds[1].yellow
  /\ leds = allRedLights
  /\ greenEndTime = BASE_GREEN_DELAY + 9 * VEHICLE_FACTOR
  /\ millis = greenEndTime + YELLOW_DELAY
  /\ vehicleCounts[1] = 0
  /\ ~emergencyStatus[1]
  /\ currentRoad = -1

\* --------------------------------------------------------------------- C8
\* The stored state an UPDATE for no road must leave alone.
RoadAndLampState ==
  << vehicleCounts, emergencyStatus, emergencyOverride,
     trafficSystemRunning, systemActive, currentRoad, currentGreenRoad,
     leds >>

\* C8 (invalid road id): an UPDATE whose road number is outside 1..4 leaves
\* the counts, the flags, the running flag, the served road and the lamps
\* unchanged, and is answered with the invalid-road-id error.
InvalidRoadIdRejected ==
  [][ \A line \in BadRoadUpdates :
        serialIn' = <<line>> =>
          /\ UNCHANGED RoadAndLampState
          /\ \E k \in DOMAIN serialOut' :
               serialOut'[k].message = <<"Invalid road ID">> ]_vars

\* --------------------------------------------------------------------- C9
ErrorReplies ==
  {<<"Invalid UPDATE format">>, <<"Invalid road ID">>, <<"Unknown command">>}

\* C9 (malformed UPDATE): in sketch 1, an UPDATE with a missing field, a
\* non-numeric count or a negative count leaves every count and flag
\* unchanged and is answered with an error.
MalformedUpdateRejected ==
  [][ sketch = 1 =>
        \A line \in MalformedUpdates :
          serialIn' = <<line>> =>
            /\ UNCHANGED <<vehicleCounts, emergencyStatus>>
            /\ \E k \in DOMAIN serialOut' :
                 serialOut'[k].message \in ErrorReplies ]_vars

\* -------------------------------------------------------------------- C10
\* The step read a STOP that is processed and not undone by a later line
\* of the same read.
StopProcessed(in) ==
  IF sketch = 1
  THEN in # <<>> /\ in[Len(in)] = S_STOP
  ELSE in = <<S_STOP>>

\* C10 (STOP forces all-red): the step that processes a STOP, in any phase,
\* leaves the system stopped with every road red only; and a stopped
\* system with all roads red stays so in every step that reads no START.
StopForcesAllRed ==
  [][ /\ StopProcessed(serialIn') => (~Running' /\ leds' = allRedLights)
      /\ (~Running /\ leds = allRedLights
            /\ \A k \in DOMAIN serialIn' : serialIn'[k] # S_START)
           => (~Running' /\ leds' = allRedLights) ]_vars

\* A STOP processed while a green lamp was lit.
StopForcesAllRedWitness ==
  /\ serialIn = <<S_STOP>>
  /\ \E r \in Roads : prevLeds[r].green
  /\ leds = allRedLights
  /\ ~Running

\* -------------------------------------------------------------------- C11
\* C11 (START and STOP preserve road data): a step that reads only START
\* and STOP lines changes no road's count and no road's emergency flag, in
\* either sketch and in any phase.
StartStopPreserveRoadData ==
  [][ (serialIn' # <<>>
         /\ \A k \in DOMAIN serialIn' : serialIn'[k] \in {S_START, S_STOP})
        => UNCHANGED <<vehicleCounts, emergencyStatus, emergencyOverride>>
    ]_vars

\* A STOP processed in sketch 1 while road 2 was green: its 9 vehicles are
\* still stored.
StartStopPreserveWitness ==
  /\ sketch = 1
  /\ serialIn = <<S_STOP>>
  /\ prevLeds[1].green
  /\ leds = allRedLights
  /\ vehicleCounts[1] = 9

\* -------------------------------------------------------------------- C12
\* The step is lines 60-78 of loop() in sketch 1.
IsRunTraffic1 ==
  /\ sketch = 1
  /\ pc \in {"loop", "tick"}
  /\ pc' # "tick"
  /\ millis' = millis

\* C12 (emergency preemption mid-green): in sketch 1, a loop() iteration
\* that finds road r green for MIN_GREEN_DELAY at least while a different
\* road has its emergency flag set ends r's green (r goes to its exit
\* yellow), also before greenEndTime; and before MIN_GREEN_DELAY has
\* elapsed r stays green.
EmergencyPreemption ==
  [][ \A r \in Roads :
        (IsRunTraffic1 /\ greenActive /\ currentRoad = r /\ leds[r].green
           /\ Flagged(emergencyStatus) \ {r} # {})
          => IF millis - greenSince >= MIN_GREEN_DELAY
             THEN pc' = "endGreenLight" /\ leds'[r].yellow
             ELSE leds'[r].green ]_vars

\* -------------------------------------------------------------------- C13
\* A road's green lamp is lit only when the road showed yellow just before.
GreenOnlyAfterYellow ==
  \A r \in Roads : (~leds[r].green /\ leds'[r].green) => leds[r].yellow

\* C13 (phase order): in sketch 1 a road's green lamp is lit only directly
\* after the same road showed yellow, and a green road returns to red only
\* by first showing yellow, under every sequence of commands and ticks.
PhaseOrder ==
  [][ sketch = 1 =>
        /\ GreenOnlyAfterYellow
        /\ \A r \in Roads :
             (leds[r].green /\ ~leds'[r].green) => leds'[r].yellow ]_vars

\* C13 as the code has it: the same, except that the step that reads a
\* STOP turns a green road red at once.
PhaseOrderExceptStop ==
  [][ sketch = 1 =>
        /\ GreenOnlyAfterYellow
        /\ \A r \in Roads :
             (leds[r].green /\ ~leds'[r].green) =>
               \/ leds'[r].yellow /\ ~leds'[r].red
               \/ /\ \E k \in DOMAIN serialIn' : serialIn'[k] = S_STOP
                  /\ leds' = allRedLights ]_vars

\* Road 2's green has just ended at its greenEndTime: the road shows its
\* exit yellow.
PhaseOrderWitness ==
  /\ sketch = 1
  /\ pc = "endGreenLight"
  /\ prevLeds[1].green
  /\ leds[1].yellow
  /\ ~leds[1].green
  /\ millis >= greenEndTime

\* -------------------------------------------------------------------- C14
\* No emergency flag is set and every road's count is 0.
AllRoadsEmpty ==
  /\ Flagged(emergencyStatus) = {}
  /\ \A i \in Roads : vehicleCounts[i] = 0

\* C14 (round-robin fallback): in sketch 1, when no emergency flag is set
\* and all four counts are 0, the arbitrator selects a road (the one that
\* follows the most recently served road in cyclic order): a loop()
\* iteration of the running system that finds no green phase active, after
\* a road was served, starts a green phase.
RoundRobinFallback ==
  [][ (IsRunTraffic1 /\ trafficSystemRunning /\ ~greenActive
         /\ AllRoadsEmpty /\ greenEndTime > 0)
        => (pc' = "startGreenLight" /\ currentRoad' \in Roads) ]_vars

\* -------------------------------------------------------------------- C15
\* C15 (bootstrap default): in sketch 1, the loop() iteration that follows
\* the START of a fresh session (all counts 0, no emergency flag, no road
\* served yet) selects road 1 and starts its green phase.
BootstrapDefault ==
  [][ (IsRunTraffic1 /\ trafficSystemRunning /\ ~greenActive
         /\ AllRoadsEmpty /\ greenEndTime = 0)
        => (pc' = "startGreenLight" /\ currentRoad' = 0
              /\ leds'[0].yellow) ]_vars

\* -------------------------------------------------------------------- C16
\* clamp(BASE_GREEN_DELAY + c * VEHICLE_FACTOR, MIN_GREEN_DELAY,
\* MAX_GREEN_DELAY) over the integers.
ClampedDelay(c) ==
  LET sum == BASE_GREEN_DELAY + c * VEHICLE_FACTOR
  IN IF sum < MIN_GREEN_DELAY THEN MIN_GREEN_DELAY
     ELSE IF sum > MAX_GREEN_DELAY THEN MAX_GREEN_DELAY
     ELSE sum

\* C16 (green duration formula): the duration startGreenLight() computes for
\* the selected road with stored count c equals
\* clamp(5000 + 300 * c, 3000, 15000) evaluated over the integers.
GreenDurationFormula ==
  (sketch = 1 /\ pc = "startGreenLight") =>
    greenEndTime - now = ClampedDelay(vehicleCounts[currentRoad])

\* -------------------------------------------------------------------- C17
\* C17 (emergency duration): in sketch 1, a road selected because its
\* emergency flag is set is given the fixed emergency green duration,
\* whatever its count.
EmergencyDuration ==
  (sketch = 1 /\ pc = "startGreenLight" /\ emergencyStatus[currentRoad]) =>
    greenEndTime - now = EMERGENCY_GREEN_TIME

\* -------------------------------------------------------------------- C18
\* The variables of sketch 1 a STATUS must leave alone.
ControllerState1 ==
  << vehicleCounts, emergencyStatus, trafficSystemRunning, currentRoad,
     greenEndTime, greenActive, leds, millis >>

\* C18 (STATUS content): the reply of sketch 1 to a STATUS reports the
\* running flag, the 1-based served road (0 for none) and every road's
\* count and emergency flag, and processing STATUS changes no controller
\* state.
StatusContent ==
  [][ (sketch = 1 /\ serialIn' = <<S_STATUS>>) =>
        /\ UNCHANGED ControllerState1
        /\ \E k \in DOMAIN serialOut' :
             serialOut'[k].status =
               << trafficSystemRunning, currentRoad + 1,
                  vehicleCounts, emergencyStatus >> ]_vars

\* -------------------------------------------------------------------- C19
\* The well-formed UPDATE lines with the road (0-based), the count and the
\* flag they give.
WellFormedUpdates ==
  { [ line |-> UpdateLine(<<"2">>, <<"9">>, S_FALSE),
      road |-> 1, count |-> 9, emergency |-> FALSE ],
    [ line |-> UpdateLine(<<"3">>, <<"1">>, S_TRUE),
      road |-> 2, count |-> 1, emergency |-> TRUE ] }

NoSilentDrops ==
  [][ serialIn' # <<>> => Len(serialOut') = Len(serialIn') ]_vars

\* -------------------------------------------------------------------- C21
\* The delay(YELLOW_DELAY) of startGreenLight() or endGreenLight() is
\* running.
InYellowDwell == sketch = 1 /\ pc \in {"startGreenLight", "endGreenLight"}

\* C21 (yellow runs to completion): in sketch 1, while a yellow dwell is
\* running the yellow lamp of the road is lit, and no step, whatever command
\* arrives, changes a lamp or leaves the dwell except the step that ends it
\* YELLOW_DELAY after it began; time does not pass otherwise.
YellowRunsToCompletion ==
  [][ InYellowDwell =>
        /\ leds[currentRoad].yellow
        /\ \/ leds' = leds /\ pc' = pc /\ millis' = millis
           \/ /\ millis' = millis + YELLOW_DELAY
              /\ leds'[currentRoad] # leds[currentRoad] ]_vars

\* STOP arrived during the yellow before a green, and the green lamp was lit
\* all the same, at the end of the dwell, with STOP still unread.
YellowRunsToCompletionWitness ==
  /\ sketch = 1
  /\ pc = "loop"
  /\ serialBuf = <<S_STOP>>
  /\ greenActive
  /\ leds[currentRoad].green
  /\ greenSince = millis
  /\ prevLeds[currentRoad].yellow

\* -------------------------------------------------------------------- C22
\* C22 (mutual exclusion at the display): whatever the cameras report, the
\* Traffic Light Status card shows at most one of the four lanes green, and
\* every other lane red.
AtMostOneGreenLane ==
  /\ Cardinality({id \in Lanes : isGreen(signalColors[id])}) <= 1
  /\ \A id \in Lanes : signalColors[id] \in {GREEN_BORDER, RED_BORDER}

\* -------------------------------------------------------------------- C23
\* The UPDATE lines received and not yet read by handleSerialCommands().
PendingUpdates ==
  {k \in DOMAIN serialBuf : startsWith(serialBuf[k], S_UPDATE)}

\* C23 (updates are not blocked behind a transition): in sketch 1, when a
\* yellow dwell ends, every UPDATE that arrived during it has been committed
\* to the road state: none is still waiting to be read.
UpdatesNotBlocked ==
  [][ (InYellowDwell /\ millis' # millis) => PendingUpdates = {} ]_vars

\* -------------------------------------------------------------------- C24
\* C24 (the green deadline counts from entering green): in sketch 1, when the
\* green lamp of a road is lit at the end of the yellow, the deadline
\* greenEndTime is that moment plus the duration computed for the phase
\* (greenEndTime - now, as startGreenLight() computed it); and a green lamp
\* that loop() turns off at its deadline has been lit for MIN_GREEN_DELAY at
\* least.
GreenDeadlineFromGreen ==
  [][ /\ (sketch = 1 /\ pc = "startGreenLight" /\ leds'[currentRoad].green)
          => greenEndTime' = millis' + (greenEndTime - now)
      /\ \A r \in Roads :
           (sketch = 1 /\ leds[r].green /\ ~leds'[r].green
              /\ pc' = "endGreenLight")
             => millis' - greenSince >= MIN_GREEN_DELAY ]_vars

\* -------------------------------------------------------------------- C25
\* The road a status report names as current (0: none), in either sketch.
ReportedRoad(msg) == msg.status[2]

\* C25 (truthful status): when STATUS, read alone, is answered, in either
\* sketch, the road the report names as current has its green lamp lit; and
\* when every road shows red the report names no road.
TruthfulStatus ==
  [][ serialIn' = <<S_STATUS>> =>
        \A k \in DOMAIN serialOut' :
          Len(serialOut'[k].status) >= 2 =>
            IF leds' = allRedLights
            THEN ReportedRoad(serialOut'[k]) = 0
            ELSE /\ ReportedRoad(serialOut'[k]) \in 1..4
                 /\ leds'[ReportedRoad(serialOut'[k]) - 1].green ]_vars

\* -------------------------------------------------------------------- C26
\* C26 (an iteration while stopped is a no-op): an iteration of loop() that
\* begins with the system not running and reads no command changes no lamp,
\* no count, no emergency flag, not the served road and not the deadline of
\* the green, in either sketch.
StoppedIterationIsNoOp ==
  [][ (pc = "loop" /\ ~Running /\ serialIn' = <<>>) =>
        /\ pc' = "loop"
        /\ UNCHANGED << leds, vehicleCounts, emergencyStatus,
                        emergencyOverride, trafficSystemRunning, systemActive,
                        currentRoad, greenActive, greenEndTime,
                        currentGreenRoad, lastSwitchTime >> ]_vars

\* Time has passed over iterations of a stopped system that holds a count
\* and an emergency flag for a road, and every road is still red.
StoppedIterationWitness ==
  /\ ~Running
  /\ pc = "loop"
  /\ serialIn = <<>>
  /\ serialBuf = <<>>
  /\ vehicleCounts[2] = 1
  /\ EmergencyFlags[2]
  /\ millis >= TimeStep
  /\ leds = allRedLights

\* -------------------------------------------------------------------- C27
\* C27 (UPDATE writes only its own road): the step that reads a well-formed
\* UPDATE for road r, in either sketch, leaves every other road's count and
\* flag, the running flag, the served road, the deadline of the phase in
\* progress and every lamp unchanged.
UpdateWritesOwnRoadOnly ==
  [][ \A u \in WellFormedUpdates :
        serialIn' = <<u.line>> =>
          /\ \A i \in Roads \ {u.road} :
               /\ vehicleCounts'[i] = vehicleCounts[i]
               /\ emergencyStatus'[i] = emergencyStatus[i]
               /\ emergencyOverride'[i] = emergencyOverride[i]
          /\ leds' = leds
          /\ UNCHANGED << trafficSystemRunning, systemActive, currentRoad,
                          greenActive, greenEndTime, currentGreenRoad,
                          lastSwitchTime >> ]_vars

\* UPDATE:3:1:true read while road 2, holding count 9, has its green lamp
\* lit: road 3's count and flag are stored, road 2's are as they were.
UpdateWritesOwnRoadOnlyWitness ==
  /\ pc = "tick"
  /\ serialIn = <<UpdateLine(<<"3">>, <<"1">>, S_TRUE)>>
  /\ Running
  /\ leds[1].green
  /\ vehicleCounts[1] = 9
  /\ vehicleCounts[2] = 1
  /\ EmergencyFlags[2]

\* -------------------------------------------------------------------- C28
\* The UPDATE lines of the feed with the road (0-based), the count and the
\* flag they give.
FeedUpdates ==
  WellFormedUpdates
    \cup { [ line |-> UpdateLine(<<"2">>, <<"1">>, S_TRUE),
             road |-> 1, count |-> 1, emergency |-> TRUE ] }

\* The positions in the lines read at which an UPDATE for road r stands.
Writers(in, r) ==
  {k \in DOMAIN in : \E u \in FeedUpdates : u.line = in[k] /\ u.road = r}

StateConsistency1 ==
  (sketch = 1 /\ pc = "loop") =>
    /\ greenActive <=> currentRoad \in Roads
    /\ greenActive => trafficSystemRunning
    /\ greenActive =>
         leds = [allRedLights EXCEPT ![currentRoad].red = FALSE,
                                     ![currentRoad].green = TRUE]
    /\ ~greenActive => leds = allRedLights

\* An iteration of loop() has ended with road 3 served, its green lamp lit
\* for some time already.
StateConsistency1Witness ==
  /\ sketch = 1
  /\ pc = "loop"
  /\ greenActive
  /\ currentRoad = 2
  /\ leds[2].green
  /\ greenSince >= 0
  /\ millis > greenSince

\* -------------------------------------------------------------------- C30
\* C30 (an active sketch 2 shows a green): whenever systemActive holds and
\* no switchToRoad() is in progress, the road recorded in currentGreenRoad
\* has its green lamp lit.
ActiveShowsGreen ==
  (sketch = 2 /\ systemActive /\ pc \in {"loop", "tick"}) =>
    /\ currentGreenRoad \in 1..4
    /\ leds[currentGreenRoad - 1].green

\* -------------------------------------------------------------------- C31
\* C31 (an emergency holds the green, sketch 2): a set emergency flag is
\* cleared only by the step that reads an UPDATE for its road; a switch begun
\* while a flag is set goes to the lowest-numbered flagged road; and while
\* that road is the served one, a step that reads no command begins no
\* switch and changes no lamp.
EmergencyHoldsGreen ==
  [][ sketch = 2 =>
        /\ \A r \in Roads :
             (emergencyOverride[r] /\ ~emergencyOverride'[r]) =>
               /\ serialIn' # <<>>
               /\ \E u \in FeedUpdates :
                    u.line = serialIn'[1] /\ u.road = r
        /\ (Flagged(emergencyOverride) # {} /\ pc \in {"loop", "tick"}
              /\ pc' = "switchYellow")
             => road' = Min(Flagged(emergencyOverride)) + 1
        /\ (Flagged(emergencyOverride) # {} /\ serialIn' = <<>>
              /\ pc \in {"loop", "tick"}
              /\ currentGreenRoad = Min(Flagged(emergencyOverride)) + 1)
             => /\ pc' = "loop"
                /\ leds' = leds
                /\ currentGreenRoad' = currentGreenRoad ]_vars

\* Road 3, flagged, has had its green lamp lit for NORMAL_GREEN_TIME and
\* more while road 2 holds the highest count, and is still the served road.
EmergencyHoldsGreenWitness ==
  /\ sketch = 2
  /\ systemActive
  /\ pc = "loop"
  /\ emergencyOverride[2]
  /\ currentGreenRoad = 3
  /\ leds[2].green
  /\ vehicleCounts[1] = 9
  /\ millis - greenSince >= NORMAL_GREEN_TIME

\* -------------------------------------------------------------------- C32
\* C32 (demand reported during a road's own green is lost): in sketch 1,
\* whatever count and flag the served road holds when its green phase ends,
\* those stored by an UPDATE read during the green included, the end of the
\* phase leaves the road with count 0 and no flag, and the arbitration that
\* follows does not select the road.
OwnGreenDemandOverwritten ==
  [][ (sketch = 1 /\ pc = "endGreenLight" /\ pc' # "endGreenLight"
         /\ (vehicleCounts[currentRoad] # 0 \/ emergencyStatus[currentRoad]))
        => /\ vehicleCounts'[currentRoad] = 0
           /\ ~emergencyStatus'[currentRoad]
           /\ getHighestPriorityRoad(vehicleCounts', emergencyStatus')
                # currentRoad ]_vars

\* Road 2's green phase, begun at 0 ms with count 9 (deadline 7700 ms), is
\* in its exit yellow, and the road holds the count 1 and the flag that
\* UPDATE:2:1:true stored while its green lamp was lit.
OwnGreenDemandWitness ==
  /\ sketch = 1
  /\ pc = "endGreenLight"
  /\ currentRoad = 1
  /\ leds[1].yellow
  /\ greenEndTime = BASE_GREEN_DELAY + 9 * VEHICLE_FACTOR
  /\ vehicleCounts[1] = 1
  /\ emergencyStatus[1]

\* -------------------------------------------------------------------- C33
\* C33 (nothing connects for a disabled hook): while enabled is false or the
\* component is unmounted, no WebSocket of the instance is CONNECTING or
\* OPEN, whatever timers and socket events were pending when disconnect()
\* or cleanup() ran.
NoConnectionWhileDisabled ==
  (~hook.mounted \/ ~hook.enabled) => Live(hook.sockets) = {}

\* -------------------------------------------------------------------- C34
\* C34 (a detection result leaves the connection alone): in
\* hooks/useWebSocketDetection.ts, when a detection_result arrives on the
\* open WebSocket of a mounted, enabled instance, wsRef holds the same
\* WebSocket afterwards and it is still OPEN.
DetectionKeepsSocket ==
  [][ /\ hook.variant = "hook"
      /\ hook.mounted /\ hook.enabled
      /\ hook.wsRef # 0
      /\ hook'.event = "detection_result"
      => /\ hook'.wsRef = hook.wsRef
         /\ hook'.sockets[hook.wsRef].readyState = "OPEN" ]_vars

\* -------------------------------------------------------------------- C35
\* C35 (bounded reconnect): the reconnect timer creates at most
\* maxReconnectAttempts WebSockets (10 in the hook, 5 in the copy) without a
\* successful open, a forceReconnect or a change of enabled in between.
BoundedReconnect ==
  hook.reconnectsSinceOpen <= maxReconnectAttempts(hook.variant)

\* -------------------------------------------------------------------- C36
\* C36 (single connection): an instance of the hook, in either variant,
\* never has more than one WebSocket that is CONNECTING or OPEN.
SingleConnection == Cardinality(Live(hook.sockets)) <= 1

\* A connect() that replaced a WebSocket still closing: two WebSocket
\* objects exist, one of them live.
SingleConnectionWitness ==
  /\ hook.event \in {"props", "render", "reconnect", "forceTimer"}
  /\ Cardinality(Live(hook.sockets)) = 1
  /\ \E s \in SocketIds : hook.sockets[s].readyState = "CLOSING"

\* -------------------------------------------------------------------- C37
\* C37 (backend health retry): in WebcamCapture a retry timer is pending
\* only while apiConnected is false, connectionAttempts is below 10 and no
\* health check awaits its response; a failed check adds one to
\* connectionAttempts, a successful one sets it to 0 and apiConnected to
\* true; and after 10 failed checks in a row, with no forceReconnect since,
\* no timer is pending.
HealthRetryDiscipline ==
  [][ /\ webcam'.reconnectTimeout =>
           /\ ~webcam'.apiConnected
           /\ webcam'.connectionAttempts < 10
           /\ ~webcam'.isCheckingApi
           /\ webcam'.checks = <<>>
      /\ webcam'.event = "checkFailed" =>
           webcam'.connectionAttempts = webcam.connectionAttempts + 1
      /\ webcam'.event = "checkSucceeded" =>
           webcam'.connectionAttempts = 0 /\ webcam'.apiConnected
      /\ webcam'.failedChecks >= 10 => ~webcam'.reconnectTimeout ]_vars

\* The tenth failed check in a row has just ended: the backend is taken as
\* disconnected, nothing is in flight, and no timer was scheduled.
HealthRetryWitness ==
  /\ webcam.event = "checkFailed"
  /\ webcam.failedChecks = 10
  /\ webcam.connectionAttempts = 10
  /\ ~webcam.apiConnected /\ ~webcam.isCheckingApi
  /\ ~webcam.reconnectTimeout

\* -------------------------------------------------------------------- C38
\* C38 (an active system belongs to a connected controller): in the
\* ArduinoController panel systemActive is true only while isConnected is
\* true.
ActiveOnlyWhileConnected == panel.systemActive => panel.isConnected

=============================================================================
